---- MODULE Spec2Model ----
(***************************************************************************)
(* A model of the holoheart_mvp backend core:                              *)
(*   - ImprovedRateLimiter (acquire, wait_for_token, execute_with_retry)   *)
(*     of backend/app/client/kimi_api.py,                                  *)
(*   - KimiAPI.process_stream_chat of the same file, consumed by           *)
(*     stream_chat.event_generator of backend/app/api/router.py,           *)
(*   - find_sentence_end of backend/app/utils/text_cleaner.py.             *)
(*                                                                         *)
(* Time is counted in tenths of a second, so that every duration of the    *)
(* code (0.1, 0.5, 1.0, 30 s) is a whole number.  The clock `now` models   *)
(* time.time(); it is monotonic and read exactly.                          *)
(***************************************************************************)
EXTENDS Integers, Sequences, FiniteSets, TLC

(***************************************************************************)
(* Bounds of the model.                                                    *)
(***************************************************************************)
NumCallers == 2      \* concurrent threads using the one limiter
MaxTime == 12        \* idle clock ticks and new calls stop after StartTime + MaxTime
MaxStalls == 4       \* long suspensions (TokenTimeout) of the process per run

(***************************************************************************)
(* Program constants (tenths of a second where a duration).                *)
(***************************************************************************)
rate_limit == 2      \* ImprovedRateLimiter.__init__ default
time_window == 10    \* 1 s
max_retries == 3
retry_delay == 10    \* 1 s
TokenTimeout == 300  \* wait_for_token(timeout=30)
PollInterval == 1    \* time.sleep(0.1) in wait_for_token
SafetyMargin == 5    \* suggested_wait + 0.5
MinBackoff == 10     \* max(1.0, ...)

Callers == 1..NumCallers
NoCaller == 0
Executors == {1}               \* the callers that use execute_with_retry
StartTime == 2 * time_window   \* the clock at construction, well past 0
NoHint == -1
SuggestedWaits == {2}          \* "after N seconds" of a rate-limit error, in seconds

Max(a, b) == IF a >= b THEN a ELSE b
Min(a, b) == IF a <= b THEN a ELSE b

\* Python's int() of the exact quotient n / d (d > 0): truncation toward zero.
IntTrunc(n, d) == IF n >= 0 THEN n \div d ELSE -((-n) \div d)

\* 2 ** k for the attempt indexes of the retry loop
RECURSIVE Pow2(_)
Pow2(k) == IF k = 0 THEN 1 ELSE 2 * Pow2(k - 1)

VARIABLES
  now,                \* time.time()
  stalls,             \* long suspensions taken so far
  tokens,             \* ImprovedRateLimiter.tokens
  last_refill_time,   \* ImprovedRateLimiter.last_refill_time
  credited,           \* the sum of new_tokens over all refills so far
  granted,            \* the acquire() calls that have returned True so far
  last_request_time,  \* ImprovedRateLimiter.last_request_time
  lock,               \* holder of ImprovedRateLimiter.lock, or NoCaller
  pc,                 \* each caller's position
  op,                 \* the outermost call a caller is in: "none", "acquire", "execute"
  attempt,            \* execute_with_retry: the loop variable
  start_time,         \* wait_for_token: start_time
  current_time,       \* acquire: current_time
  wake_at,            \* end of the caller's current time.sleep (0: not sleeping)
  acquired,           \* value returned by the caller's last acquire()
  got_token,          \* value returned by the caller's last wait_for_token()
  result,             \* how the caller's last execute_with_retry ended
  last_err,           \* the last error the wrapped operation raised for the caller
  op_calls,           \* invocations of the wrapped operation in the current call
  wait_timeouts,      \* token waits that timed out in the current call
  backoffs,           \* sleeps taken by execute_with_retry in the current call
  \* one turn of KimiAPI.stream_chat, consumed by the router's event_generator
  history,            \* the history list the caller passed to stream_chat
  messages,           \* the message list of the turn
  gen_pc,             \* position of the process_stream_chat generator
  gen_run,            \* TRUE while the generator runs (its consumer awaits the next event)
  events,             \* the events the generator has yielded to its consumer
  tool_calls,         \* choice.message.tool_calls of the probe
  tool_idx,           \* index of the tool call being processed
  chunks_seen,        \* deltas read from the stream so far
  calls_made,         \* the gateway calls the turn has entered, in order
  exceptions,         \* the exceptions raised inside the generator's try block, in order
  escaping,           \* TRUE while an exception no handler caught unwinds the generator
  tts_enabled,        \* request.tts_enabled
  consumer,           \* "none", "drain" (iterates to exhaustion) or "router"
  router_pc,          \* position of event_generator
  accumulated_text,   \* event_generator: accumulated_text
  delivered,          \* what event_generator has sent to the client
  synth,              \* the texts handed to text_to_speech, with the outcome of each
  split_called,       \* whether split_text_for_tts has been called
  split_text,         \* its argument text
  max_length,         \* its argument max_length
  paragraphs,         \* the list it returned
  audio_queue,        \* AudioManager.audio_queue, the items waiting
  current_audio,      \* AudioManager.current_audio, or NoItem
  audio_start_time,   \* AudioManager.audio_start_time
  audio_play_duration,\* AudioManager.audio_play_duration
  is_playing,         \* AudioManager.is_playing
  task,               \* AudioManager.task, or NoTask
  task_pc,            \* where each _audio_processor task is suspended
  task_wake,          \* when the sleep of each task ends
  cancelling,         \* the tasks cancel() was called on and that have not run since
  stop_pc,            \* the caller of stop(): "idle" or "awaiting"
  stop_task,          \* the task that stop() awaits
  next_item,          \* the next audio file to be offered
  next_task,          \* the next task to be created
  file_exists,        \* the offered files that exist on disk
  played,             \* the items that became current, in order
  dropped,            \* the items clear_queue() took off the queue
  aborted,            \* the items whose playback sleep was cancelled
  status,             \* what get_status() returned last
  refused,            \* the items for which add_to_queue() returned False
  offered_at_stop,    \* the items that had been offered when stop() was last invoked
  timeout,            \* wait_for_token: the timeout argument of each caller's call
  taken,              \* tokens each caller's current wait_for_token has consumed
  base_delay,         \* the retry_delay of a limiter whose handler computes a wait
  wait_attempt,       \* the attempt index the handler is in
  wait_err,           \* the rate-limit error it handles
  wait_time,          \* execute_with_retry: wait_time, as computed by the handler
  sent_messages,      \* the messages argument of each invocation of the wrapped
                      \* create() in the current gateway call, in order
  call_tokens,        \* the acquisitions that returned True inside each caller's
                      \* current execute_with_retry
  earlier_appended    \* for each turn that is over and was followed by another with the
                      \* same history list: whether it had appended to its message list

limiter_vars == <<tokens, last_refill_time, last_request_time, lock, credited, granted>>
caller_vars == <<pc, op, attempt, start_time, current_time, wake_at, acquired,
                 got_token, result, last_err, op_calls, wait_timeouts, backoffs>>
gen_vars == <<history, messages, gen_pc, gen_run, events, tool_calls, tool_idx, chunks_seen,
             calls_made, exceptions, escaping>>
router_vars == <<tts_enabled, consumer, router_pc, accumulated_text, delivered, synth>>
turn_vars == <<gen_vars, router_vars>>
split_vars == <<split_called, split_text, max_length, paragraphs>>
audio_vars == <<audio_queue, current_audio, audio_start_time, audio_play_duration,
               is_playing, task, task_pc, task_wake, cancelling, stop_pc, stop_task,
               next_item, next_task, file_exists, played, dropped, aborted, status,
               refused, offered_at_stop>>
wait_vars == <<timeout, taken>>
backoff_vars == <<base_delay, wait_attempt, wait_err, wait_time>>
rest_vars == <<split_vars, audio_vars, backoff_vars, sent_messages, call_tokens, earlier_appended>>
other_vars == <<rest_vars, wait_vars>>
plain_vars == <<split_vars, audio_vars, backoff_vars, wait_vars, earlier_appended>>
vars == <<now, stalls, limiter_vars, caller_vars, turn_vars, other_vars>>

\* The errors the wrapped operation can raise, by what the handler reads of str(e).
RateLimitErrors == [kind : {"rate_limit"}, after : {NoHint} \cup SuggestedWaits]
OtherErrors == [kind : {"other"}, after : {NoHint}]
OpErrors == RateLimitErrors \cup OtherErrors
TokenTimeoutError == [kind |-> "token_timeout", after |-> NoHint]
NoError == [kind |-> "none", after |-> NoHint]

\* min_interval = self.time_window / self.rate_limit
min_interval == time_window \div rate_limit

Init ==
  /\ now = StartTime
  /\ stalls = 0
  /\ tokens = rate_limit
  /\ last_refill_time = StartTime
  /\ credited = 0
  /\ granted = 0
  /\ last_request_time = 0
  /\ lock = NoCaller
  /\ pc = [c \in Callers |-> "idle"]
  /\ op = [c \in Callers |-> "none"]
  /\ attempt = [c \in Callers |-> 0]
  /\ start_time = [c \in Callers |-> 0]
  /\ current_time = [c \in Callers |-> 0]
  /\ wake_at = [c \in Callers |-> 0]
  /\ acquired = [c \in Callers |-> FALSE]
  /\ got_token = [c \in Callers |-> FALSE]
  /\ result = [c \in Callers |-> "none"]
  /\ last_err = [c \in Callers |-> NoError]
  /\ op_calls = [c \in Callers |-> 0]
  /\ wait_timeouts = [c \in Callers |-> 0]
  /\ backoffs = [c \in Callers |-> 0]
  /\ history = <<>>
  /\ messages = <<>>
  /\ gen_pc = "none"
  /\ gen_run = FALSE
  /\ events = <<>>
  /\ tool_calls = <<>>
  /\ tool_idx = 0
  /\ chunks_seen = 0
  /\ calls_made = <<>>
  /\ exceptions = <<>>
  /\ escaping = FALSE
  /\ tts_enabled = FALSE
  /\ consumer = "none"
  /\ router_pc = "none"
  /\ accumulated_text = <<>>
  /\ delivered = <<>>
  /\ synth = <<>>
  /\ split_called = FALSE
  /\ split_text = <<>>
  /\ max_length = 0
  /\ paragraphs = <<>>
  /\ audio_queue = <<>>
  /\ current_audio = 0
  /\ audio_start_time = 0
  /\ audio_play_duration = 0
  /\ is_playing = FALSE
  /\ task = 0
  /\ task_pc = <<>>
  /\ task_wake = <<>>
  /\ cancelling = {}
  /\ stop_pc = "idle"
  /\ stop_task = 0
  /\ next_item = 1
  /\ next_task = 1
  /\ file_exists = {}
  /\ played = <<>>
  /\ dropped = {}
  /\ aborted = {}
  /\ status = [playing |-> FALSE, path |-> 0, queue_size |-> 0]
  /\ refused = {}
  /\ offered_at_stop = {}
  /\ timeout = [c \in Callers |-> 0]
  /\ taken = [c \in Callers |-> 0]
  /\ base_delay = retry_delay
  /\ wait_attempt = 0
  /\ wait_err = NoError
  /\ wait_time = 0
  /\ sent_messages = <<>>
  /\ call_tokens = [c \in Callers |-> 0]
  /\ earlier_appended = <<>>

(***************************************************************************)
(* The clock.                                                              *)
(***************************************************************************)
\* a tenth of a second passes
Tick ==
  /\ now < StartTime + MaxTime
  /\ now' = now + 1
  /\ UNCHANGED turn_vars
  /\ UNCHANGED <<stalls, limiter_vars, caller_vars>>
  /\ UNCHANGED other_vars

\* the process is not scheduled for as long as a token wait lasts
Stall ==
  /\ stalls < MaxStalls
  /\ stalls' = stalls + 1
  /\ now' = now + TokenTimeout
  /\ UNCHANGED turn_vars
  /\ UNCHANGED <<limiter_vars, caller_vars>>
  /\ UNCHANGED other_vars

(***************************************************************************)
(* ImprovedRateLimiter.acquire                                             *)
(***************************************************************************)
\* a caller calls acquire() itself
StartAcquire(c) ==
  /\ pc[c] = "idle"
  /\ now <= StartTime + MaxTime
  /\ pc' = [pc EXCEPT ![c] = "acq_lock"]
  /\ op' = [op EXCEPT ![c] = "acquire"]
  /\ UNCHANGED turn_vars
  /\ UNCHANGED <<now, stalls, limiter_vars, attempt, start_time, current_time, wake_at,
                 acquired, got_token, result, last_err, op_calls, wait_timeouts, backoffs>>
  /\ UNCHANGED other_vars

\* an acquire that never delays its caller
SpacingIgnored(t) == FALSE

\* whether acquire must sleep before the refill, given the time it read
SpacingViolated(t) == t - last_request_time < min_interval

\* a lock that excludes nobody
LockIgnored == TRUE

\* threading.Lock: `with self.lock` is entered when no thread holds the lock
LockFree == lock = NoCaller

\* with self.lock: current_time = time.time(); the spacing test
AcquireEnter(c) ==
  /\ pc[c] = "acq_lock"
  /\ LockFree
  /\ lock' = c
  /\ current_time' = [current_time EXCEPT ![c] = now]
  /\ IF SpacingViolated(now)
       THEN /\ wake_at' = [wake_at EXCEPT ![c] = now + (min_interval - (now - last_request_time))]
            /\ pc' = [pc EXCEPT ![c] = "acq_sleep"]
       ELSE /\ pc' = [pc EXCEPT ![c] = "acq_refill"]
            /\ UNCHANGED wake_at
  /\ UNCHANGED turn_vars
  /\ UNCHANGED <<now, stalls, tokens, last_refill_time, last_request_time, credited, granted,
                 op, attempt,
                 start_time, acquired, got_token, result, last_err, op_calls,
                 wait_timeouts, backoffs>>
  /\ UNCHANGED other_vars

\* time.sleep(sleep_time) returns; current_time = time.time()
AcquireWake(c) ==
  /\ pc[c] = "acq_sleep"
  /\ now' = Max(now, wake_at[c])
  /\ current_time' = [current_time EXCEPT ![c] = now']
  /\ wake_at' = [wake_at EXCEPT ![c] = 0]
  /\ pc' = [pc EXCEPT ![c] = "acq_refill"]
  /\ UNCHANGED turn_vars
  /\ UNCHANGED <<stalls, limiter_vars, op, attempt, start_time, acquired, got_token,
                 result, last_err, op_calls, wait_timeouts, backoffs>>
  /\ UNCHANGED other_vars

\* new_tokens rounded up instead of truncated
NewTokensRoundedUp(t) ==
  ((t - last_refill_time) * rate_limit + time_window - 1) \div time_window

\* new_tokens = int(time_passed / self.time_window * self.rate_limit)
NewTokens(t) == IntTrunc((t - last_refill_time) * rate_limit, time_window)

\* the refill without its cap
RefilledNoCap(n) == tokens + n

\* self.tokens = min(self.rate_limit, self.tokens + new_tokens)
Refilled(n) == Min(rate_limit, tokens + n)

\* the refill step of acquire
AcquireRefill(c) ==
  /\ pc[c] = "acq_refill"
  /\ lock = c
  /\ IF NewTokens(current_time[c]) > 0
       THEN /\ tokens' = Refilled(NewTokens(current_time[c]))
            /\ last_refill_time' = current_time[c]
            /\ credited' = credited + NewTokens(current_time[c])
       ELSE UNCHANGED <<tokens, last_refill_time, credited>>
  /\ pc' = [pc EXCEPT ![c] = "acq_take"]
  /\ UNCHANGED turn_vars
  /\ UNCHANGED <<now, stalls, last_request_time, lock, granted, op, attempt, start_time,
                 current_time, wake_at, acquired, got_token, result, last_err, op_calls,
                 wait_timeouts, backoffs>>
  /\ UNCHANGED other_vars

\* an acquire that takes its token without stamping last_request_time
AcquireTakeUnstamped(c) ==
  /\ pc[c] = "acq_take"
  /\ lock = c
  /\ IF tokens > 0
       THEN /\ tokens' = tokens - 1
            /\ UNCHANGED last_request_time
            /\ acquired' = [acquired EXCEPT ![c] = TRUE]
            /\ granted' = granted + 1
            /\ taken' = [taken EXCEPT ![c] = IF op[c] = "acquire" THEN @ ELSE @ + 1]
            /\ call_tokens' = [call_tokens EXCEPT ![c] = IF op[c] = "execute" THEN @ + 1 ELSE @]
       ELSE /\ acquired' = [acquired EXCEPT ![c] = FALSE]
            /\ UNCHANGED <<tokens, last_request_time, granted, taken, call_tokens>>
  /\ lock' = NoCaller
  /\ current_time' = [current_time EXCEPT ![c] = 0]
  /\ IF op[c] = "acquire"
       THEN /\ pc' = [pc EXCEPT ![c] = "idle"]
            /\ op' = [op EXCEPT ![c] = "none"]
       ELSE /\ pc' = [pc EXCEPT ![c] = "wft_polled"]
            /\ UNCHANGED op
  /\ UNCHANGED turn_vars
  /\ UNCHANGED <<now, stalls, last_refill_time, credited, attempt, start_time, wake_at,
                 got_token, result, last_err, op_calls, wait_timeouts, backoffs>>
  /\ UNCHANGED <<split_vars, audio_vars, backoff_vars, sent_messages, timeout, earlier_appended>>

\* if self.tokens > 0: take one, stamp last_request_time, return True; else return
\* False.  The lock is released on return.
AcquireTake(c) ==
  /\ pc[c] = "acq_take"
  /\ lock = c
  /\ IF tokens > 0
       THEN /\ tokens' = tokens - 1
            /\ last_request_time' = now
            /\ acquired' = [acquired EXCEPT ![c] = TRUE]
            /\ granted' = granted + 1
            /\ taken' = [taken EXCEPT ![c] = IF op[c] = "acquire" THEN @ ELSE @ + 1]
            /\ call_tokens' = [call_tokens EXCEPT ![c] = IF op[c] = "execute" THEN @ + 1 ELSE @]
       ELSE /\ acquired' = [acquired EXCEPT ![c] = FALSE]
            /\ UNCHANGED <<tokens, last_request_time, granted, taken, call_tokens>>
  /\ lock' = NoCaller
  /\ current_time' = [current_time EXCEPT ![c] = 0]
  /\ IF op[c] = "acquire"
       THEN /\ pc' = [pc EXCEPT ![c] = "idle"]
            /\ op' = [op EXCEPT ![c] = "none"]
       ELSE /\ pc' = [pc EXCEPT ![c] = "wft_polled"]
            /\ UNCHANGED op
  /\ UNCHANGED turn_vars
  /\ UNCHANGED <<now, stalls, last_refill_time, credited, attempt, start_time, wake_at,
                 got_token, result, last_err, op_calls, wait_timeouts, backoffs>>
  /\ UNCHANGED <<split_vars, audio_vars, backoff_vars, sent_messages, timeout, earlier_appended>>

(***************************************************************************)
(* ImprovedRateLimiter.wait_for_token                                      *)
(***************************************************************************)
\* the timeouts wait_for_token is called with: none, 0.2 s and the default 30 s
Timeouts == {0, 2, TokenTimeout}

\* a caller calls wait_for_token(timeout) itself: start_time = time.time()
StartWait(c) ==
  /\ pc[c] = "idle"
  /\ now <= StartTime + MaxTime
  /\ \E t \in Timeouts : timeout' = [timeout EXCEPT ![c] = t]
  /\ taken' = [taken EXCEPT ![c] = 0]
  /\ start_time' = [start_time EXCEPT ![c] = now]
  /\ pc' = [pc EXCEPT ![c] = "wft_check"]
  /\ op' = [op EXCEPT ![c] = "wait"]
  /\ UNCHANGED turn_vars
  /\ UNCHANGED <<now, stalls, limiter_vars, attempt, current_time, wake_at, acquired,
                 got_token, result, last_err, op_calls, wait_timeouts, backoffs>>
  /\ UNCHANGED rest_vars

\* a loop test that gives up at once
TimedOutAtOnce(c) == TRUE

\* the negation of the loop test: time.time() - start_time < timeout
TimedOut(c) == ~(now - start_time[c] < timeout[c])

\* wait_for_token returns b, to execute_with_retry or to the caller itself
WaitReturn(c, b) ==
  /\ got_token' = [got_token EXCEPT ![c] = b]
  /\ start_time' = [start_time EXCEPT ![c] = 0]
  /\ IF op[c] = "wait"
       THEN /\ pc' = [pc EXCEPT ![c] = "idle"]
            /\ op' = [op EXCEPT ![c] = "none"]
       ELSE /\ pc' = [pc EXCEPT ![c] = "ewr_waited"]
            /\ UNCHANGED op

\* while time.time() - start_time < timeout: the loop test.  When it holds the
\* body calls acquire(); when it fails wait_for_token returns False.
WaitCheck(c) ==
  /\ pc[c] = "wft_check"
  /\ IF TimedOut(c)
       THEN WaitReturn(c, FALSE)
       ELSE /\ pc' = [pc EXCEPT ![c] = "acq_lock"]
            /\ UNCHANGED <<got_token, start_time, op>>
  /\ UNCHANGED turn_vars
  /\ UNCHANGED <<now, stalls, limiter_vars, attempt, current_time, wake_at,
                 acquired, result, last_err, op_calls, wait_timeouts, backoffs>>
  /\ UNCHANGED other_vars

\* if self.acquire(): return True; otherwise time.sleep(0.1), which passes at
\* least PollInterval, and back to the loop test
WaitPolled(c) ==
  /\ pc[c] = "wft_polled"
  /\ IF acquired[c]
       THEN /\ WaitReturn(c, TRUE)
            /\ UNCHANGED now
       ELSE /\ now' = now + PollInterval
            /\ pc' = [pc EXCEPT ![c] = "wft_check"]
            /\ UNCHANGED <<got_token, start_time, op>>
  /\ UNCHANGED turn_vars
  /\ UNCHANGED <<stalls, limiter_vars, attempt, current_time, wake_at, acquired,
                 result, last_err, op_calls, wait_timeouts, backoffs>>
  /\ UNCHANGED other_vars

(***************************************************************************)
(* ImprovedRateLimiter.execute_with_retry                                  *)
(***************************************************************************)
\* execute_with_retry(func) is entered: attempt = 0
BeginExecute(c) ==
  /\ pc[c] = "idle"
  /\ pc' = [pc EXCEPT ![c] = "ewr_loop"]
  /\ op' = [op EXCEPT ![c] = "execute"]
  /\ attempt' = [attempt EXCEPT ![c] = 0]
  /\ result' = [result EXCEPT ![c] = "running"]
  /\ last_err' = [last_err EXCEPT ![c] = NoError]
  /\ op_calls' = [op_calls EXCEPT ![c] = 0]
  /\ wait_timeouts' = [wait_timeouts EXCEPT ![c] = 0]
  /\ backoffs' = [backoffs EXCEPT ![c] = 0]
  /\ sent_messages' = <<>>
  /\ call_tokens' = [call_tokens EXCEPT ![c] = 0]
  /\ UNCHANGED <<now, stalls, limiter_vars, start_time, current_time, wake_at, acquired,
                 got_token>>

\* a caller that is not serving a turn calls execute_with_retry
StartExecute(c) ==
  /\ now <= StartTime + MaxTime
  /\ BeginExecute(c)
  /\ UNCHANGED turn_vars
  /\ UNCHANGED plain_vars

\* for attempt in range(self.max_retries + 1)
InRange(a) == a <= max_retries

\* top of an iteration: self.wait_for_token() is entered, start_time = time.time().
\* A loop that ran out of indexes would fall off the end of the function.
EwrAttempt(c) ==
  /\ pc[c] = "ewr_loop"
  /\ IF InRange(attempt[c])
       THEN /\ start_time' = [start_time EXCEPT ![c] = now]
            /\ timeout' = [timeout EXCEPT ![c] = TokenTimeout]
            /\ taken' = [taken EXCEPT ![c] = 0]
            /\ pc' = [pc EXCEPT ![c] = "wft_check"]
            /\ UNCHANGED <<result, op>>
       ELSE /\ result' = [result EXCEPT ![c] = "fell_through"]
            /\ pc' = [pc EXCEPT ![c] = "idle"]
            /\ op' = [op EXCEPT ![c] = "none"]
            /\ UNCHANGED <<start_time, timeout, taken>>
  /\ UNCHANGED turn_vars
  /\ UNCHANGED <<now, stalls, limiter_vars, attempt, current_time, wake_at, acquired,
                 got_token, last_err, op_calls, wait_timeouts, backoffs>>
  /\ UNCHANGED rest_vars

\* a handler that takes every error of the operation for a rate-limit error
AnyErrorIsRateLimit(e) == e.kind \in {"rate_limit", "other"}

\* "rate_limit" in error_str
IsRateLimit(e) == e.kind = "rate_limit"

\* a handler that gives up one attempt early
RetryableOneLess(e, a) == e.kind = "rate_limit" /\ a < max_retries - 1

\* the handler's test for sleeping and going round again
Retryable(e, a) == IsRateLimit(e) /\ a < max_retries

\* a handler that sleeps the server's hint without a margin
WaitTimeNoMargin(d, e, a) ==
  IF e.after # NoHint
    THEN e.after * 10
    ELSE Max(MinBackoff, d * Pow2(a))

\* wait_time of the handler of a limiter with retry_delay d: the server's hint
\* plus the margin, or max(1.0, d * 2 ** attempt)
WaitTimeFor(d, e, a) ==
  IF e.after # NoHint
    THEN e.after * 10 + SafetyMargin
    ELSE Max(MinBackoff, d * Pow2(a))

\* wait_time of the handler of the limiter of the model
WaitTime(e, a) == WaitTimeFor(retry_delay, e, a)

\* except Exception as e: sleep and go round again, or re-raise
Handle(c, e) ==
  IF Retryable(e, attempt[c])
    THEN /\ wake_at' = [wake_at EXCEPT ![c] = now + WaitTime(e, attempt[c])]
         /\ backoffs' = [backoffs EXCEPT ![c] = @ + 1]
         /\ pc' = [pc EXCEPT ![c] = "ewr_sleep"]
         /\ UNCHANGED <<result, op>>
    ELSE /\ result' = [result EXCEPT ![c] = "raised"]
         /\ pc' = [pc EXCEPT ![c] = "idle"]
         /\ op' = [op EXCEPT ![c] = "none"]
         /\ UNCHANGED <<wake_at, backoffs>>

\* a sleep after a token timeout that does not grow with the attempt
TimeoutSleepFlat(a) == retry_delay

\* time.sleep(self.retry_delay * (attempt + 1))
TimeoutSleep(a) == retry_delay * (a + 1)

\* an attempt that goes on to the operation whatever wait_for_token returned
NoTokenNever(c) == FALSE

\* if not self.wait_for_token()
NoToken(c) == ~got_token[c]

\* if not self.wait_for_token(): raise on the last attempt, else sleep
\* retry_delay * (attempt + 1) and continue; with a token, go on to func
EwrWaited(c) ==
  /\ pc[c] = "ewr_waited"
  /\ IF ~NoToken(c)
       THEN /\ pc' = [pc EXCEPT ![c] = "ewr_call"]
            /\ UNCHANGED <<wake_at, backoffs, result, op, last_err, wait_timeouts>>
       ELSE /\ wait_timeouts' = [wait_timeouts EXCEPT ![c] = @ + 1]
            /\ IF attempt[c] = max_retries
                 THEN /\ last_err' = [last_err EXCEPT ![c] = TokenTimeoutError]
                      /\ Handle(c, TokenTimeoutError)
                 ELSE /\ wake_at' = [wake_at EXCEPT ![c] = now + TimeoutSleep(attempt[c])]
                      /\ backoffs' = [backoffs EXCEPT ![c] = @ + 1]
                      /\ pc' = [pc EXCEPT ![c] = "ewr_sleep"]
                      /\ UNCHANGED <<result, op, last_err>>
  /\ UNCHANGED turn_vars
  /\ UNCHANGED <<now, stalls, limiter_vars, attempt, start_time, current_time, acquired,
                 got_token, op_calls>>
  /\ UNCHANGED other_vars

\* an operation that is handed the list with its last message missing when it
\* is tried again
Truncated(msgs, n) == IF n > 0 /\ msgs # <<>> THEN SubSeq(msgs, 1, Len(msgs) - 1) ELSE msgs

\* func(*args, **kwargs): the keyword argument messages is the turn's list itself
\* at every attempt
Passed(msgs, n) == msgs

\* return func(*args, **kwargs): the wrapped operation returns
EwrCallReturns(c) ==
  /\ pc[c] = "ewr_call"
  /\ sent_messages' = Append(sent_messages, Passed(messages, op_calls[c]))
  /\ UNCHANGED call_tokens
  /\ op_calls' = [op_calls EXCEPT ![c] = @ + 1]
  /\ result' = [result EXCEPT ![c] = "returned"]
  /\ pc' = [pc EXCEPT ![c] = "idle"]
  /\ op' = [op EXCEPT ![c] = "none"]
  /\ UNCHANGED turn_vars
  /\ UNCHANGED <<now, stalls, limiter_vars, attempt, start_time, current_time, wake_at,
                 acquired, got_token, last_err, wait_timeouts, backoffs>>
  /\ UNCHANGED plain_vars

\* func raises e, which the handler catches
EwrCallRaises(c) ==
  /\ pc[c] = "ewr_call"
  /\ sent_messages' = Append(sent_messages, Passed(messages, op_calls[c]))
  /\ UNCHANGED call_tokens
  /\ \E e \in OpErrors :
       /\ op_calls' = [op_calls EXCEPT ![c] = @ + 1]
       /\ last_err' = [last_err EXCEPT ![c] = e]
       /\ Handle(c, e)
  /\ UNCHANGED turn_vars
  /\ UNCHANGED <<now, stalls, limiter_vars, attempt, start_time, current_time, acquired,
                 got_token, wait_timeouts>>
  /\ UNCHANGED plain_vars

\* a retry loop that does not advance its index
EwrWakeSameIndex(c) ==
  /\ pc[c] = "ewr_sleep"
  /\ now' = Max(now, wake_at[c])
  /\ wake_at' = [wake_at EXCEPT ![c] = 0]
  /\ pc' = [pc EXCEPT ![c] = "ewr_loop"]
  /\ UNCHANGED turn_vars
  /\ UNCHANGED <<stalls, limiter_vars, op, attempt, start_time, current_time, acquired,
                 got_token, result, last_err, op_calls, wait_timeouts, backoffs>>
  /\ UNCHANGED other_vars

\* the sleep of the retry loop returns; the for loop takes its next index
EwrWake(c) ==
  /\ pc[c] = "ewr_sleep"
  /\ now' = Max(now, wake_at[c])
  /\ attempt' = [attempt EXCEPT ![c] = @ + 1]
  /\ wake_at' = [wake_at EXCEPT ![c] = 0]
  /\ pc' = [pc EXCEPT ![c] = "ewr_loop"]
  /\ UNCHANGED turn_vars
  /\ UNCHANGED <<stalls, limiter_vars, op, start_time, current_time, acquired,
                 got_token, result, last_err, op_calls, wait_timeouts, backoffs>>
  /\ UNCHANGED other_vars

\* callers that call acquire() over and over, at any times
NextLimiter ==
  \/ Tick
  \/ Stall
  \/ \E c \in Callers : StartAcquire(c)
  \/ \E c \in Callers : AcquireEnter(c)
  \/ \E c \in Callers : AcquireWake(c)
  \/ \E c \in Callers : AcquireRefill(c)
  \/ \E c \in Callers : AcquireTake(c)

SpecLimiter == Init /\ [][NextLimiter]_vars

\* a caller that calls execute_with_retry over and over
NextRetry ==
  \/ Tick
  \/ Stall
  \/ \E c \in Executors : StartExecute(c)
  \/ \E c \in Callers : EwrAttempt(c)
  \/ \E c \in Callers : WaitCheck(c)
  \/ \E c \in Callers : AcquireEnter(c)
  \/ \E c \in Callers : AcquireWake(c)
  \/ \E c \in Callers : AcquireRefill(c)
  \/ \E c \in Callers : AcquireTake(c)
  \/ \E c \in Callers : WaitPolled(c)
  \/ \E c \in Callers : EwrWaited(c)
  \/ \E c \in Callers : EwrCallReturns(c)
  \/ \E c \in Callers : EwrCallRaises(c)
  \/ \E c \in Callers : EwrWake(c)

SpecRetry == Init /\ [][NextRetry]_vars

\* The retry delays a limiter can be constructed with (tenths of a second) and the
\* attempt indexes at which the handler sleeps.
MaxBaseDelay == 25
BaseDelays == 1..MaxBaseDelay
NonFinalAttempts == 0..(max_retries - 1)

\* the handler of a limiter constructed with retry_delay d computes wait_time for
\* a rate-limit error caught at a non-final attempt
ComputeWait ==
  /\ \E d \in BaseDelays, a \in NonFinalAttempts, e \in RateLimitErrors :
       /\ base_delay' = d
       /\ wait_attempt' = a
       /\ wait_err' = e
       /\ wait_time' = WaitTimeFor(d, e, a)
  /\ UNCHANGED turn_vars
  /\ UNCHANGED <<now, stalls, limiter_vars, caller_vars>>
  /\ UNCHANGED <<split_vars, audio_vars, wait_vars, sent_messages, call_tokens, earlier_appended>>

NextBackoff == ComputeWait

SpecBackoff == Init /\ [][NextBackoff]_vars

\* the steps of caller c inside a call it has made
CallerStep(c) ==
  \/ WaitCheck(c)
  \/ AcquireEnter(c)
  \/ AcquireWake(c)
  \/ AcquireRefill(c)
  \/ AcquireTake(c)
  \/ WaitPolled(c)

\* callers that call wait_for_token(timeout) over and over; time passes while a
\* thread sleeps in acquire and while the process is not scheduled
NextWait ==
  \/ Stall
  \/ \E c \in Callers : StartWait(c)
  \/ \E c \in Callers : CallerStep(c)

\* every thread inside a call is scheduled again: a sleep ends, a free lock is taken
SpecWait == Init /\ [][NextWait]_vars /\ \A c \in Callers : WF_vars(CallerStep(c))

(***************************************************************************)
(* Text: find_sentence_end of text_cleaner.py.  A text is a sequence of     *)
(* characters; the full-width terminators are written fw_period,           *)
(* fw_question and fw_exclaim.                                             *)
(***************************************************************************)
end_chars == <<"fw_period", "fw_question", "fw_exclaim", ".", "?", "!">>
NotFound == -1
LongTextLen == 50      \* if len(text) > 50
MinSentenceEnd == 10   \* if sentence_end > 10

\* text.find(char): the 0-based index of the first occurrence, or -1
Find(text, ch) ==
  IF \E i \in 1..Len(text) : text[i] = ch
    THEN (CHOOSE i \in 1..Len(text) :
            /\ text[i] = ch
            /\ \A j \in 1..(i - 1) : text[j] # ch) - 1
    ELSE NotFound

SetMin(S) == CHOOSE x \in S : \A y \in S : x <= y

\* find_sentence_end that takes the last terminator of the text
find_sentence_end_last(text) ==
  LET valid_positions == {Find(text, end_chars[k]) : k \in 1..Len(end_chars)} \ {NotFound}
      last == {i \in 1..Len(text) : \E k \in 1..Len(end_chars) : text[i] = end_chars[k]}
  IN  IF valid_positions # {}
        THEN (CHOOSE x \in last : \A y \in last : y <= x) - 1
        ELSE IF Len(text) > LongTextLen THEN Len(text) - 1 ELSE NotFound

\* find_sentence_end that looks for terminators only
find_sentence_end_strict(text) ==
  LET valid_positions == {Find(text, end_chars[k]) : k \in 1..Len(end_chars)} \ {NotFound}
  IN  IF valid_positions # {} THEN SetMin(valid_positions) ELSE NotFound

find_sentence_end(text) ==
  LET valid_positions == {Find(text, end_chars[k]) : k \in 1..Len(end_chars)} \ {NotFound}
  IN  IF valid_positions # {}
        THEN SetMin(valid_positions)
        ELSE IF Len(text) > LongTextLen THEN Len(text) - 1 ELSE NotFound

\* text[:n] and text[n:] of Python, n >= 0
Prefix(text, n) == SubSeq(text, 1, Min(n, Len(text)))
\* a remainder that loses the character after the cut
SuffixSkipping(text, n) == SubSeq(text, Min(n, Len(text)) + 2, Len(text))
Suffix(text, n) == SubSeq(text, Min(n, Len(text)) + 1, Len(text))

\* whether event_generator cuts a sentence off the text accumulated so far
CutsSentence(text) == find_sentence_end(text) > MinSentenceEnd

\* text_to_speech returns None for a text that is empty once stripped
IsBlank(text) == \A i \in 1..Len(text) : text[i] = " "

(***************************************************************************)
(* KimiAPI.stream_chat and process_stream_chat.                            *)
(***************************************************************************)
MaxToolCalls == 2     \* tool calls in one probe answer
MaxChunks == 3        \* deltas read from one stream

Message(role, id, name, content, calls) ==
  [role |-> role, tool_call_id |-> id, name |-> name, content |-> content, calls |-> calls]
NoId == 0
SystemMessage == Message("system", NoId, "", "You are Kimi", <<>>)
UserMessage == Message("user", NoId, "", "message", <<>>)
Histories == {<<>>, <<Message("user", NoId, "", "earlier question", <<>>),
                      Message("assistant", NoId, "", "earlier answer", <<>>)>>}

ToolNames == {"$web_search", "other_tool"}
ToolArguments == {"json", "not json"}
ToolCall(id, name, arguments) == [id |-> id, name |-> name, arguments |-> arguments]
\* the tool-call lists of a probe answer: ids 1..n
ToolCallLists ==
  UNION {{[i \in 1..n |-> ToolCall(i, nm[i], ar[i])] :
            nm \in [1..n -> ToolNames], ar \in [1..n -> ToolArguments]} : n \in 1..MaxToolCalls}
FinishReasons == {"stop", "tool_calls", "length"}

Event(type, content) == [type |-> type, content |-> content]
ApiError == <<"API error">>

\* the contents a stream delta can carry
A5 == <<"a", "a", "a", "a", "a">>
StreamChunks == {A5 \o A5 \o <<"a", "a", ".">>, <<"a">>, A5 \o A5 \o <<"a", "!", "a">>}

\* the generator hands an event to its consumer and is suspended
Yield(e) ==
  /\ events' = Append(events, e)
  /\ gen_run' = FALSE

\* what can be raised inside the try block: an error out of execute_with_retry,
\* json.loads on arguments that are not JSON, an error while the stream is read
ExceptionKinds == {"gateway", "json", "stream"}

\* a handler that matches the errors of the API client only
CaughtIfApiError(kind) == kind \in {"gateway", "stream"}

\* except Exception: every kind above is an Exception
Caught(kind) == kind \in ExceptionKinds

\* an exception is raised inside the try block: a handler that catches it yields
\* the error event; uncaught, it unwinds through the finally
Raise(kind) ==
  /\ exceptions' = Append(exceptions, kind)
  /\ gen_pc' = "finally"
  /\ IF Caught(kind)
       THEN /\ Yield(Event("error", ApiError))
            /\ UNCHANGED escaping
       ELSE /\ escaping' = TRUE
            /\ UNCHANGED <<events, gen_run>>

\* stream_chat(message, history): the message list is built and the generator
\* made; its consumer starts to iterate
StreamChat(hist) ==
  /\ gen_pc = "none"
  /\ history' = hist
  /\ messages' = <<SystemMessage>> \o hist \o <<UserMessage>>
  /\ gen_pc' = "start"
  /\ gen_run' = TRUE
  /\ UNCHANGED <<events, tool_calls, tool_idx, chunks_seen, calls_made, exceptions, escaping>>

\* yield {'type': 'start'}
GenStart ==
  /\ gen_run /\ gen_pc = "start"
  /\ Yield(Event("start", <<>>))
  /\ gen_pc' = "probe"
  /\ UNCHANGED <<history, messages, tool_calls, tool_idx, chunks_seen, calls_made,
                 exceptions, escaping>>
  /\ UNCHANGED <<now, stalls, limiter_vars, caller_vars, router_vars>>
  /\ UNCHANGED other_vars

\* the probe: execute_with_retry(create, messages, tools, stream=False) is entered
GenProbeCall(c) ==
  /\ gen_run /\ gen_pc = "probe"
  /\ BeginExecute(c)
  /\ gen_pc' = "probe_wait"
  /\ calls_made' = Append(calls_made, "probe")
  /\ UNCHANGED <<history, messages, gen_run, events, tool_calls, tool_idx, chunks_seen,
                 exceptions, escaping>>
  /\ UNCHANGED router_vars
  /\ UNCHANGED plain_vars

\* the caller's execute_with_retry has ended
CallEnded(c) == pc[c] = "idle" /\ op[c] = "none"

\* the turn takes the outcome of its gateway call; the call's locals are gone
TakeOutcome(c) ==
  /\ result' = [result EXCEPT ![c] = "none"]
  /\ attempt' = [attempt EXCEPT ![c] = 0]
  /\ last_err' = [last_err EXCEPT ![c] = NoError]
  /\ op_calls' = [op_calls EXCEPT ![c] = 0]
  /\ wait_timeouts' = [wait_timeouts EXCEPT ![c] = 0]
  /\ backoffs' = [backoffs EXCEPT ![c] = 0]
  /\ sent_messages' = <<>>
  /\ call_tokens' = [call_tokens EXCEPT ![c] = 0]
  /\ UNCHANGED <<now, stalls, limiter_vars, pc, op, start_time, current_time, wake_at,
                 acquired, got_token>>

\* the probe returned: finish_reason is read; on tool_calls the tool_call event
\* is yielded
GenProbeReturned(c) ==
  /\ gen_run /\ gen_pc = "probe_wait"
  /\ CallEnded(c) /\ result[c] = "returned"
  /\ \E fr \in FinishReasons :
       IF fr = "tool_calls"
         THEN /\ \E tcs \in ToolCallLists : tool_calls' = tcs
              /\ Yield(Event("tool_call", <<>>))
              /\ gen_pc' = "tool_assistant"
         ELSE /\ gen_pc' = "stream"
              /\ UNCHANGED <<tool_calls, events, gen_run>>
  /\ UNCHANGED <<history, messages, tool_idx, chunks_seen, calls_made, exceptions, escaping>>
  /\ TakeOutcome(c)
  /\ UNCHANGED router_vars
  /\ UNCHANGED plain_vars

\* execute_with_retry raised, in the probe or in the streaming call
GenCallRaised(c) ==
  /\ gen_run /\ gen_pc \in {"probe_wait", "stream_wait"}
  /\ CallEnded(c) /\ result[c] = "raised"
  /\ Raise("gateway")
  /\ UNCHANGED <<history, messages, tool_calls, tool_idx, chunks_seen, calls_made>>
  /\ TakeOutcome(c)
  /\ UNCHANGED router_vars
  /\ UNCHANGED plain_vars

\* a turn whose message list is the caller's list object
AppendReaches(hist, msg) == Append(hist, msg)

\* the caller's history list once msg has been appended to the turn's list:
\* stream_chat built the turn's list as a new list, [system, *history, user],
\* so an append to it does not reach the caller's
AppendLeaves(hist, msg) == hist

\* messages.append(choice.message.model_dump())
GenAppendAssistant ==
  /\ gen_run /\ gen_pc = "tool_assistant"
  /\ messages' = Append(messages, Message("assistant", NoId, "", "", tool_calls))
  /\ history' = AppendLeaves(history, Message("assistant", NoId, "", "", tool_calls))
  /\ tool_idx' = 1
  /\ gen_pc' = "tool_loop"
  /\ UNCHANGED <<gen_run, events, tool_calls, chunks_seen, calls_made, exceptions,
                 escaping>>
  /\ UNCHANGED <<now, stalls, limiter_vars, caller_vars, router_vars>>
  /\ UNCHANGED other_vars

\* a tool_result that takes every name for the search tool
ToolResultEchoAll(tc) == "arguments"

\* tool_result of one call: search_impl echoes the arguments, any other name
\* gives the error string
ToolResult(tc) ==
  IF tc.name = "$web_search" THEN "arguments" ELSE "Error: unable to find tool by name"

\* a tool message that carries the id of the first call whatever the call
ToolMessageFirstId(tc) == Message("tool", 1, tc.name, ToolResult(tc), <<>>)

\* {"role": "tool", "tool_call_id": tool_call.id, "name": ..., "content": ...}
ToolMessage(tc) == Message("tool", tc.id, tc.name, ToolResult(tc), <<>>)

\* a loop that is left after its first round
AfterToolFirst(i) == "stream"

\* for tool_call in choice.message.tool_calls: after round i the next call, or
\* past the loop on to the streaming call
AfterTool(i) == IF i = Len(tool_calls) THEN "stream" ELSE "tool_loop"

\* one round of the loop over tool_calls: json.loads of the arguments (which
\* raises on text that is not JSON), the tool's result, the tool message
GenToolCall ==
  /\ gen_run /\ gen_pc = "tool_loop"
  /\ LET tc == tool_calls[tool_idx]
     IN  IF tc.arguments = "json"
           THEN /\ messages' = Append(messages, ToolMessage(tc))
                /\ history' = AppendLeaves(history, ToolMessage(tc))
                /\ tool_idx' = tool_idx + 1
                /\ gen_pc' = AfterTool(tool_idx)
                /\ UNCHANGED <<events, gen_run, exceptions, escaping>>
           ELSE /\ Raise("json")
                /\ UNCHANGED <<messages, history, tool_idx>>
  /\ UNCHANGED <<tool_calls, chunks_seen, calls_made>>
  /\ UNCHANGED <<now, stalls, limiter_vars, caller_vars, router_vars>>
  /\ UNCHANGED other_vars

\* the streaming call: execute_with_retry(create, messages, stream=True) is entered
GenStreamCall(c) ==
  /\ gen_run /\ gen_pc = "stream"
  /\ BeginExecute(c)
  /\ gen_pc' = "stream_wait"
  /\ calls_made' = Append(calls_made, "stream")
  /\ UNCHANGED <<history, messages, gen_run, events, tool_calls, tool_idx, chunks_seen,
                 exceptions, escaping>>
  /\ UNCHANGED router_vars
  /\ UNCHANGED plain_vars

\* the streaming call returned the stream
GenStreamOpened(c) ==
  /\ gen_run /\ gen_pc = "stream_wait"
  /\ CallEnded(c) /\ result[c] = "returned"
  /\ gen_pc' = "streaming"
  /\ UNCHANGED <<history, messages, gen_run, events, tool_calls, tool_idx, chunks_seen,
                 calls_made, exceptions, escaping>>
  /\ TakeOutcome(c)
  /\ UNCHANGED router_vars
  /\ UNCHANGED plain_vars

\* for chunk in stream: a delta with content is yielded as a chunk event
GenChunk ==
  /\ gen_run /\ gen_pc = "streaming"
  /\ chunks_seen < MaxChunks
  /\ \E content \in StreamChunks : Yield(Event("chunk", content))
  /\ chunks_seen' = chunks_seen + 1
  /\ UNCHANGED <<history, messages, gen_pc, tool_calls, tool_idx, calls_made, exceptions,
                 escaping>>
  /\ UNCHANGED <<now, stalls, limiter_vars, caller_vars, router_vars>>
  /\ UNCHANGED other_vars

\* a delta without content is passed over
GenEmptyDelta ==
  /\ gen_run /\ gen_pc = "streaming"
  /\ chunks_seen < MaxChunks
  /\ chunks_seen' = chunks_seen + 1
  /\ UNCHANGED <<history, messages, gen_pc, gen_run, events, tool_calls, tool_idx,
                 calls_made, exceptions, escaping>>
  /\ UNCHANGED <<now, stalls, limiter_vars, caller_vars, router_vars>>
  /\ UNCHANGED other_vars

\* a stream that gives up without telling anyone: the generator just ends
GenStreamFailsSilently ==
  /\ gen_run /\ gen_pc = "streaming"
  /\ exceptions' = Append(exceptions, "stream")
  /\ gen_pc' = "finished"
  /\ gen_run' = FALSE
  /\ UNCHANGED <<history, messages, events, tool_calls, tool_idx, chunks_seen, calls_made,
                 escaping>>
  /\ UNCHANGED <<now, stalls, limiter_vars, caller_vars, router_vars>>
  /\ UNCHANGED other_vars

\* a stream whose failure is reported while the loop over it goes on
GenStreamFailsAndGoesOn ==
  /\ gen_run /\ gen_pc = "streaming"
  /\ exceptions' = Append(exceptions, "stream")
  /\ Yield(Event("error", ApiError))
  /\ UNCHANGED <<history, messages, gen_pc, tool_calls, tool_idx, chunks_seen, calls_made,
                 escaping>>
  /\ UNCHANGED <<now, stalls, limiter_vars, caller_vars, router_vars>>
  /\ UNCHANGED other_vars

\* reading the stream raises
GenStreamFails ==
  /\ gen_run /\ gen_pc = "streaming"
  /\ Raise("stream")
  /\ UNCHANGED <<history, messages, tool_calls, tool_idx, chunks_seen, calls_made>>
  /\ UNCHANGED <<now, stalls, limiter_vars, caller_vars, router_vars>>
  /\ UNCHANGED other_vars

\* the stream is exhausted: the try block is left
GenStreamEnds ==
  /\ gen_run /\ gen_pc = "streaming"
  /\ gen_pc' = "finally"
  /\ UNCHANGED <<history, messages, gen_run, events, tool_calls, tool_idx, chunks_seen,
                 calls_made, exceptions, escaping>>
  /\ UNCHANGED <<now, stalls, limiter_vars, caller_vars, router_vars>>
  /\ UNCHANGED other_vars

\* finally: yield {'type': 'end'}
GenEnd ==
  /\ gen_run /\ gen_pc = "finally"
  /\ Yield(Event("end", <<>>))
  /\ gen_pc' = "ended"
  /\ UNCHANGED <<history, messages, tool_calls, tool_idx, chunks_seen, calls_made,
                 exceptions, escaping>>
  /\ UNCHANGED <<now, stalls, limiter_vars, caller_vars, router_vars>>
  /\ UNCHANGED other_vars

\* resumed after the end event, the generator returns, or lets the exception
\* that was unwinding out to its consumer
GenFinish ==
  /\ gen_run /\ gen_pc = "ended"
  /\ gen_pc' = IF escaping THEN "crashed" ELSE "finished"
  /\ gen_run' = FALSE
  /\ UNCHANGED <<history, messages, events, tool_calls, tool_idx, chunks_seen, calls_made,
                 exceptions, escaping>>
  /\ UNCHANGED <<now, stalls, limiter_vars, caller_vars, router_vars>>
  /\ UNCHANGED other_vars

(***************************************************************************)
(* A consumer that iterates process_stream_chat to exhaustion.             *)
(***************************************************************************)
StartDrainedTurn ==
  /\ \E hist \in Histories : StreamChat(hist)
  /\ consumer' = "drain"
  /\ UNCHANGED <<tts_enabled, router_pc, accumulated_text, delivered, synth>>
  /\ UNCHANGED <<now, stalls, limiter_vars, caller_vars>>
  /\ UNCHANGED other_vars

\* async for: the next event is asked for
DrainNext ==
  /\ consumer = "drain"
  /\ ~gen_run /\ gen_pc \notin {"none", "finished", "crashed"}
  /\ gen_run' = TRUE
  /\ UNCHANGED <<history, messages, gen_pc, events, tool_calls, tool_idx, chunks_seen,
                 calls_made, exceptions, escaping>>
  /\ UNCHANGED <<now, stalls, limiter_vars, caller_vars, router_vars>>
  /\ UNCHANGED other_vars

NextChat ==
  \/ StartDrainedTurn
  \/ DrainNext
  \/ GenStart
  \/ \E c \in Executors : GenProbeCall(c)
  \/ \E c \in Executors : GenProbeReturned(c)
  \/ \E c \in Executors : GenCallRaised(c)
  \/ GenAppendAssistant
  \/ GenToolCall
  \/ \E c \in Executors : GenStreamCall(c)
  \/ \E c \in Executors : GenStreamOpened(c)
  \/ GenChunk
  \/ GenEmptyDelta
  \/ GenStreamFails
  \/ GenStreamEnds
  \/ GenEnd
  \/ GenFinish
  \/ \E c \in Executors : EwrAttempt(c)
  \/ \E c \in Executors : WaitCheck(c)
  \/ \E c \in Executors : AcquireEnter(c)
  \/ \E c \in Executors : AcquireWake(c)
  \/ \E c \in Executors : AcquireRefill(c)
  \/ \E c \in Executors : AcquireTake(c)
  \/ \E c \in Executors : WaitPolled(c)
  \/ \E c \in Executors : EwrWaited(c)
  \/ \E c \in Executors : EwrCallReturns(c)
  \/ \E c \in Executors : EwrCallRaises(c)
  \/ \E c \in Executors : EwrWake(c)

SpecChat == Init /\ [][NextChat]_vars

\* The turns started, after the first, with the list the first was started with.
MaxLaterTurns == 1

\* stream_chat(message, history) is called again with the same history list,
\* the turn before it over: a new message list is built from the list as it is
\* now, and a new generator made
StreamChatAgain ==
  /\ consumer = "drain" /\ gen_pc = "finished"
  /\ Len(earlier_appended) < MaxLaterTurns
  /\ earlier_appended' =
       Append(earlier_appended, Len(messages) > Len(<<SystemMessage>> \o history \o <<UserMessage>>))
  /\ messages' = <<SystemMessage>> \o history \o <<UserMessage>>
  /\ gen_pc' = "start"
  /\ gen_run' = TRUE
  /\ events' = <<>>
  /\ tool_calls' = <<>>
  /\ tool_idx' = 0
  /\ chunks_seen' = 0
  /\ calls_made' = <<>>
  /\ exceptions' = <<>>
  /\ UNCHANGED <<history, escaping>>
  /\ UNCHANGED <<now, stalls, limiter_vars, caller_vars, router_vars>>
  /\ UNCHANGED <<split_vars, audio_vars, backoff_vars, wait_vars, sent_messages, call_tokens>>

NextTurns ==
  \/ NextChat
  \/ StreamChatAgain

\* turns served one after the other from one history list
SpecTurns == Init /\ [][NextTurns]_vars

(***************************************************************************)
(* stream_chat.event_generator of router.py, the consumer that serves      *)
(* /chat/stream.                                                           *)
(***************************************************************************)
NoAudio == 0
Sent(type, content, audio) == [type |-> type, content |-> content, audio_url |-> audio]
Spoken(text, ok) == [text |-> text, ok |-> ok]

\* event_generator is a coroutine: its body runs in the thread of the server's
\* event loop, while that loop is running
InEventLoop == TRUE

\* what text_to_speech(text) can answer, called with or without an event loop
\* running in the thread: None (FALSE) for a text that is blank; otherwise it
\* makes a new loop and calls run_until_complete, which raises while another
\* loop is running (caught: None) and else gives the file (TRUE) or, the
\* synthesis failing, None
text_to_speech(text, running) ==
  IF IsBlank(text) THEN {FALSE}
  ELSE IF running THEN {FALSE}
  ELSE BOOLEAN

\* what text_to_speech answers to event_generator
SpeechOutcomes(text) == text_to_speech(text, InEventLoop)

LastEvent == events[Len(events)]

\* the generator has handed event_generator an event of this type
Handed(type) ==
  /\ consumer = "router" /\ router_pc = "iterating"
  /\ ~gen_run /\ gen_pc \notin {"none", "finished", "crashed"}
  /\ Len(events) > 0
  /\ LastEvent.type = type

StartRoutedTurn ==
  /\ \E hist \in Histories : StreamChat(hist)
  /\ \E tts \in BOOLEAN : tts_enabled' = tts
  /\ consumer' = "router"
  /\ router_pc' = "iterating"
  /\ UNCHANGED <<accumulated_text, delivered, synth>>
  /\ UNCHANGED <<now, stalls, limiter_vars, caller_vars>>
  /\ UNCHANGED other_vars

\* no branch of the loop body matches a start event
RouterOnStart ==
  /\ Handed("start")
  /\ gen_run' = TRUE
  /\ UNCHANGED <<history, messages, gen_pc, events, tool_calls, tool_idx, chunks_seen,
                 calls_made, exceptions, escaping>>
  /\ UNCHANGED <<now, stalls, limiter_vars, caller_vars, router_vars>>
  /\ UNCHANGED other_vars

\* a chunk branch that keeps a sentence in the buffer when its synthesis failed
ChunkHandledKeeping(content, ok) ==
  LET text == accumulated_text \o content
      sentence_end == find_sentence_end(text)
      sentence == Prefix(text, sentence_end + 1)
      sent_chunk == Append(delivered, Sent("chunk", content, NoAudio))
  IN  IF tts_enabled /\ text # <<>> /\ CutsSentence(text)
        THEN /\ ok \in SpeechOutcomes(sentence)
             /\ accumulated_text' = IF ok THEN Suffix(text, sentence_end + 1) ELSE text
             /\ synth' = Append(synth, Spoken(sentence, ok))
             /\ delivered' = IF ok THEN Append(sent_chunk, Sent("audio", <<>>, Len(synth) + 1))
                                   ELSE sent_chunk
        ELSE /\ ok
             /\ accumulated_text' = text
             /\ delivered' = sent_chunk
             /\ UNCHANGED synth

\* the body for a chunk event: the chunk is sent on; with TTS on, a sentence is
\* cut off the accumulated text when find_sentence_end says so and handed to
\* text_to_speech (which answers ok), and its audio is sent on
ChunkHandled(content, ok) ==
  LET text == accumulated_text \o content
      sentence_end == find_sentence_end(text)
      sentence == Prefix(text, sentence_end + 1)
      sent_chunk == Append(delivered, Sent("chunk", content, NoAudio))
  IN  IF tts_enabled /\ text # <<>> /\ CutsSentence(text)
        THEN /\ ok \in SpeechOutcomes(sentence)
             /\ accumulated_text' = Suffix(text, sentence_end + 1)
             /\ synth' = Append(synth, Spoken(sentence, ok))
             /\ delivered' = IF ok THEN Append(sent_chunk, Sent("audio", <<>>, Len(synth) + 1))
                                   ELSE sent_chunk
        ELSE /\ ok
             /\ accumulated_text' = text
             /\ delivered' = sent_chunk
             /\ UNCHANGED synth

RouterOnChunk ==
  /\ Handed("chunk")
  /\ \E ok \in BOOLEAN : ChunkHandled(LastEvent.content, ok)
  /\ gen_run' = TRUE
  /\ UNCHANGED <<history, messages, gen_pc, events, tool_calls, tool_idx, chunks_seen,
                 calls_made, exceptions, escaping>>
  /\ UNCHANGED <<now, stalls, limiter_vars, caller_vars, tts_enabled, consumer, router_pc>>
  /\ UNCHANGED other_vars

RouterOnToolCall ==
  /\ Handed("tool_call")
  /\ delivered' = Append(delivered, Sent("tool_call", <<>>, NoAudio))
  /\ gen_run' = TRUE
  /\ UNCHANGED <<history, messages, gen_pc, events, tool_calls, tool_idx, chunks_seen,
                 calls_made, exceptions, escaping>>
  /\ UNCHANGED <<now, stalls, limiter_vars, caller_vars, tts_enabled, consumer, router_pc,
                 accumulated_text, synth>>
  /\ UNCHANGED other_vars

\* the error is sent on and event_generator returns
RouterOnError ==
  /\ Handed("error")
  /\ delivered' = Append(delivered, Sent("error", LastEvent.content, NoAudio))
  /\ router_pc' = "returned"
  /\ UNCHANGED gen_vars
  /\ UNCHANGED <<now, stalls, limiter_vars, caller_vars, tts_enabled, consumer,
                 accumulated_text, synth>>
  /\ UNCHANGED other_vars

\* an end branch that never has anything left to speak
NothingToFlush == FALSE

\* if request.tts_enabled and accumulated_text
TextToFlush == tts_enabled /\ accumulated_text # <<>>

\* the text still accumulated is handed to text_to_speech; the end event is
\* sent with the audio of it, if any, and event_generator returns
RouterOnEnd ==
  /\ Handed("end")
  /\ IF TextToFlush
       THEN \E ok \in SpeechOutcomes(accumulated_text) :
              /\ synth' = Append(synth, Spoken(accumulated_text, ok))
              /\ delivered' =
                   IF ok
                     THEN delivered \o <<Sent("audio", <<>>, Len(synth) + 1),
                                         Sent("end", <<>>, Len(synth) + 1)>>
                     ELSE Append(delivered, Sent("end", <<>>, NoAudio))
       ELSE /\ delivered' = Append(delivered, Sent("end", <<>>, NoAudio))
            /\ UNCHANGED synth
  /\ router_pc' = "returned"
  /\ UNCHANGED gen_vars
  /\ UNCHANGED <<now, stalls, limiter_vars, caller_vars, tts_enabled, consumer,
                 accumulated_text>>
  /\ UNCHANGED other_vars

\* event_generator has returned: the suspended generator is closed, never to
\* hand over another event
GenClose ==
  /\ consumer = "router" /\ router_pc = "returned"
  /\ gen_pc \notin {"closed", "finished", "crashed"}
  /\ gen_pc' = "closed"
  /\ UNCHANGED <<history, messages, gen_run, events, tool_calls, tool_idx, chunks_seen,
                 calls_made, exceptions, escaping>>
  /\ UNCHANGED <<now, stalls, limiter_vars, caller_vars, router_vars>>
  /\ UNCHANGED other_vars

NextStream ==
  \/ StartRoutedTurn
  \/ RouterOnStart
  \/ RouterOnChunk
  \/ RouterOnToolCall
  \/ RouterOnError
  \/ RouterOnEnd
  \/ GenClose
  \/ GenStart
  \/ \E c \in Executors : GenProbeCall(c)
  \/ \E c \in Executors : GenProbeReturned(c)
  \/ \E c \in Executors : GenCallRaised(c)
  \/ GenAppendAssistant
  \/ GenToolCall
  \/ \E c \in Executors : GenStreamCall(c)
  \/ \E c \in Executors : GenStreamOpened(c)
  \/ GenChunk
  \/ GenEmptyDelta
  \/ GenStreamFails
  \/ GenStreamEnds
  \/ GenEnd
  \/ \E c \in Executors : EwrAttempt(c)
  \/ \E c \in Executors : WaitCheck(c)
  \/ \E c \in Executors : AcquireEnter(c)
  \/ \E c \in Executors : AcquireWake(c)
  \/ \E c \in Executors : AcquireRefill(c)
  \/ \E c \in Executors : AcquireTake(c)
  \/ \E c \in Executors : WaitPolled(c)
  \/ \E c \in Executors : EwrWaited(c)
  \/ \E c \in Executors : EwrCallReturns(c)
  \/ \E c \in Executors : EwrCallRaises(c)
  \/ \E c \in Executors : EwrWake(c)

SpecStream == Init /\ [][NextStream]_vars

(***************************************************************************)
(* The chunk branch of event_generator on any run of chunk events.         *)
(***************************************************************************)
MaxFed == 5           \* chunk events fed in one run
A20 == A5 \o A5 \o A5 \o A5
FedChunks == {<<"a">>, A5, A20, <<".">>, <<"fw_question">>, <<"!", "a", ".">>}

StartFedTurn ==
  /\ consumer = "none"
  /\ consumer' = "feed"
  /\ router_pc' = "iterating"
  /\ \E tts \in BOOLEAN : tts_enabled' = tts
  /\ UNCHANGED <<accumulated_text, delivered, synth>>
  /\ UNCHANGED <<now, stalls, limiter_vars, caller_vars, gen_vars>>
  /\ UNCHANGED other_vars

\* a chunk event arrives and the chunk branch runs
FeedChunk ==
  /\ consumer = "feed"
  /\ Len(events) < MaxFed
  /\ \E content \in FedChunks :
       /\ events' = Append(events, Event("chunk", content))
       /\ \E ok \in BOOLEAN : ChunkHandled(content, ok)
  /\ UNCHANGED <<history, messages, gen_pc, gen_run, tool_calls, tool_idx, chunks_seen,
                 calls_made, exceptions, escaping>>
  /\ UNCHANGED <<now, stalls, limiter_vars, caller_vars, tts_enabled, consumer, router_pc>>
  /\ UNCHANGED other_vars

NextSegment ==
  \/ StartFedTurn
  \/ FeedChunk

SpecSegment == Init /\ [][NextSegment]_vars

(***************************************************************************)
(* split_text_for_tts of text_cleaner.py.  Whitespace is the space.        *)
(***************************************************************************)
MaxTextLen == 6        \* characters of the text that is split
MaxMaxLength == 3      \* the largest max_length tried

TextChars == {"a", " ", ".", ","}
Texts == UNION {[1..n -> TextChars] : n \in 0..MaxTextLen}

\* the characters after which the two patterns split
split_pattern == {"fw_period", "fw_exclaim", "fw_question", ".", "!", "?"}
comma_pattern == {"fw_comma", ","}

SetMax(S) == CHOOSE x \in S : \A y \in S : y <= x

\* str.strip()
Strip(text) ==
  LET keep == {i \in 1..Len(text) : text[i] # " "}
  IN  IF keep = {} THEN <<>> ELSE SubSeq(text, SetMin(keep), SetMax(keep))

\* re.split(r'(?<=[...])', text): the text is cut after every character of the
\* class; what follows the last cut, empty or not, is the last piece
RECURSIVE SplitAfter(_, _)
SplitAfter(text, class) ==
  IF \E i \in 1..Len(text) : text[i] \in class
    THEN LET i == CHOOSE i \in 1..Len(text) :
                    /\ text[i] \in class
                    /\ \A j \in 1..(i - 1) : text[j] \notin class
         IN  <<SubSeq(text, 1, i)>> \o SplitAfter(SubSeq(text, i + 1, Len(text)), class)
    ELSE <<text>>

\* a part that is too long, appended whole
Unsliced(part, m) == <<Strip(part)>>

\* for i in range(0, len(part), max_length): part[i:i+max_length].strip()
Slices(part, m) ==
  [k \in 1..((Len(part) + m - 1) \div m) |->
     Strip(SubSeq(part, (k - 1) * m + 1, Min(k * m, Len(part))))]

\* the loop state: the paragraphs so far and current_paragraph
SplitState(ps, cur) == [paragraphs |-> ps, current |-> cur]

\* if current_paragraph: paragraphs.append(current_paragraph.strip()); it is emptied
Flush(st) ==
  IF st.current # <<>>
    THEN SplitState(Append(st.paragraphs, Strip(st.current)), <<>>)
    ELSE st

\* one round of the loop over comma_parts
PartStep(st, part, m) ==
  IF IsBlank(part)
    THEN st
    ELSE LET st1 == IF Len(st.current) + Len(part) > m THEN Flush(st) ELSE st
         IN  IF Len(part) > m
               THEN SplitState(st1.paragraphs \o Slices(part, m), st1.current)
               ELSE SplitState(st1.paragraphs, st1.current \o part)

RECURSIVE PartsLoop(_, _, _)
PartsLoop(st, parts, m) ==
  IF parts = <<>> THEN st ELSE PartsLoop(PartStep(st, Head(parts), m), Tail(parts), m)

\* one round of the loop over sentences
SentenceStep(st, sentence, m) ==
  IF IsBlank(sentence)
    THEN st
    ELSE IF Len(sentence) > m
      THEN PartsLoop(st, SplitAfter(sentence, comma_pattern), m)
      ELSE IF Len(st.current) + Len(sentence) > m
        THEN SplitState(Flush(st).paragraphs, sentence)
        ELSE SplitState(st.paragraphs, st.current \o sentence)

RECURSIVE SentencesLoop(_, _, _)
SentencesLoop(st, sentences, m) ==
  IF sentences = <<>>
    THEN st
    ELSE SentencesLoop(SentenceStep(st, Head(sentences), m), Tail(sentences), m)

split_text_for_tts(text, m) ==
  IF Len(text) <= m
    THEN <<text>>
    ELSE Flush(SentencesLoop(SplitState(<<>>, <<>>), SplitAfter(text, split_pattern), m)).paragraphs

\* split_text_for_tts(text, max_length) is called and returns
SplitText ==
  /\ ~split_called
  /\ \E text \in Texts, m \in 1..MaxMaxLength :
       /\ split_text' = text
       /\ max_length' = m
       /\ paragraphs' = split_text_for_tts(text, m)
  /\ split_called' = TRUE
  /\ UNCHANGED <<now, stalls, limiter_vars, caller_vars, turn_vars, audio_vars, wait_vars,
                 backoff_vars, sent_messages, call_tokens, earlier_appended>>

NextSplit ==
  \/ SplitText

SpecSplit == Init /\ [][NextSplit]_vars

(***************************************************************************)
(* AudioManager of core/audio/audio_manager.py.  Its coroutines run on one *)
(* event loop: a step of the model is what a coroutine does between two    *)
(* points where it is suspended.  The lock is free at every such point     *)
(* (no coroutine awaits while it holds it), put() on the unbounded queue   *)
(* and get() on a queue that is not empty return at once, so add_to_queue, *)
(* clear_queue and get_status are one step each; stop() is suspended in    *)
(* `await self.task`, the consumer in get() on the empty queue and in its  *)
(* two sleeps.                                                             *)
(***************************************************************************)
MaxItems == 3         \* audio files offered to add_to_queue in one run
MaxTasks == 3         \* consumer tasks created in one run

NoItem == 0
NoTask == 0
MinPlayTime == 20     \* max(2.0, ...)
\* play_time = max(2.0, file_size / 50 * 0.2): files of two sizes
PlayTime(item) == IF item % 2 = 1 THEN MinPlayTime ELSE MinPlayTime + 10
PauseTime == 1        \* asyncio.sleep(0.1)

Tasks == 1..(next_task - 1)
Done(t) == task_pc[t] = "done"

Played(item, t, start, duration) ==
  [item |-> item, task |-> t, start |-> start, duration |-> duration]

\* if self.task is None or self.task.done()
MustStart == IF task = NoTask THEN TRUE ELSE Done(task)

\* start(): a consumer task is created unless one is there and not done
start ==
  IF MustStart /\ next_task <= MaxTasks
    THEN /\ task' = next_task
         /\ next_task' = next_task + 1
         /\ task_pc' = Append(task_pc, "getting")
         /\ task_wake' = Append(task_wake, 0)
    ELSE UNCHANGED <<task, next_task, task_pc, task_wake>>

\* initialize_audio_system(): await manager.start()
Start ==
  /\ MustStart /\ next_task <= MaxTasks
  /\ start
  /\ UNCHANGED <<audio_queue, current_audio, audio_start_time, audio_play_duration,
                 is_playing, cancelling, stop_pc, stop_task, next_item, file_exists,
                 played, dropped, aborted, status, refused, offered_at_stop>>
  /\ UNCHANGED <<now, stalls, limiter_vars, caller_vars, turn_vars, split_vars, wait_vars,
                 backoff_vars, sent_messages, call_tokens, earlier_appended>>

\* a queue that hands out the newest item first
put_first(q, item) == <<item>> \o q

\* audio_queue.put(audio_path)
put(q, item) == Append(q, item)

\* add_to_queue(audio_path): for a path whose file is missing it returns False;
\* otherwise the path is put on the queue, start() is called and it returns True
AddToQueue ==
  /\ next_item <= MaxItems
  /\ MustStart => next_task <= MaxTasks
  /\ next_item' = next_item + 1
  /\ \E exists \in BOOLEAN :
       IF exists
         THEN /\ file_exists' = file_exists \cup {next_item}
              /\ audio_queue' = put(audio_queue, next_item)
              /\ start
              /\ UNCHANGED refused
         ELSE /\ refused' = refused \cup {next_item}
              /\ UNCHANGED <<file_exists, audio_queue, task, next_task, task_pc, task_wake>>
  /\ UNCHANGED <<current_audio, audio_start_time, audio_play_duration, is_playing,
                 cancelling, stop_pc, stop_task, played, dropped, aborted, status,
                 offered_at_stop>>
  /\ UNCHANGED <<now, stalls, limiter_vars, caller_vars, turn_vars, split_vars, wait_vars,
                 backoff_vars, sent_messages, call_tokens, earlier_appended>>

\* the file of a queued path is removed from the disk
FileRemoved ==
  /\ \E i \in 1..Len(audio_queue) :
       /\ audio_queue[i] \in file_exists
       /\ file_exists' = file_exists \ {audio_queue[i]}
  /\ UNCHANGED <<audio_queue, current_audio, audio_start_time, audio_play_duration,
                 is_playing, task, task_pc, task_wake, cancelling, stop_pc, stop_task,
                 next_item, next_task, played, dropped, aborted, status, refused, offered_at_stop>>
  /\ UNCHANGED <<now, stalls, limiter_vars, caller_vars, turn_vars, split_vars, wait_vars,
                 backoff_vars, sent_messages, call_tokens, earlier_appended>>

\* a clear_queue() that leaves the queue as it is
Undrained(q) == q

\* while not self.audio_queue.empty(): get(), task_done()
Drained(q) == <<>>

\* clear_queue(): the queue is drained and the playback state reset
ClearQueue ==
  /\ audio_queue' = Drained(audio_queue)
  /\ dropped' = dropped \cup {audio_queue[i] : i \in 1..Len(audio_queue)}
  /\ current_audio' = NoItem
  /\ is_playing' = FALSE
  /\ UNCHANGED <<audio_start_time, audio_play_duration, task, task_pc, task_wake,
                 cancelling, stop_pc, stop_task, next_item, next_task, file_exists,
                 played, aborted, status, refused, offered_at_stop>>
  /\ UNCHANGED <<now, stalls, limiter_vars, caller_vars, turn_vars, split_vars, wait_vars,
                 backoff_vars, sent_messages, call_tokens, earlier_appended>>

\* get_status()
GetStatus ==
  /\ status' = IF current_audio # NoItem /\ is_playing
                 THEN [playing |-> is_playing, path |-> current_audio,
                       queue_size |-> Len(audio_queue)]
                 ELSE [playing |-> FALSE, path |-> NoItem, queue_size |-> Len(audio_queue)]
  /\ UNCHANGED <<audio_queue, current_audio, audio_start_time, audio_play_duration,
                 is_playing, task, task_pc, task_wake, cancelling, stop_pc, stop_task,
                 next_item, next_task, file_exists, played, dropped, aborted, refused, offered_at_stop>>
  /\ UNCHANGED <<now, stalls, limiter_vars, caller_vars, turn_vars, split_vars, wait_vars,
                 backoff_vars, sent_messages, call_tokens, earlier_appended>>

\* a consumer that does not look whether the file is there
SkipNothing(q) == q

\* the queue once the paths whose file is missing have been taken off its head
RECURSIVE SkipMissing(_)
SkipMissing(q) ==
  IF q # <<>> /\ Head(q) \notin file_exists THEN SkipMissing(Tail(q)) ELSE q

\* the consumer, resumed in get() with the queue not empty: paths whose file is
\* missing are passed over; the first one that exists becomes the current item
\* and its playback sleep starts, unless os.path.getsize raises, which resets
\* the state and leads to the short sleep
ConsumerGet(t) ==
  /\ t \in Tasks /\ task_pc[t] = "getting" /\ t \notin cancelling
  /\ audio_queue # <<>>
  /\ LET rest == SkipMissing(audio_queue)
     IN  IF rest = <<>>
           THEN /\ audio_queue' = <<>>
                /\ UNCHANGED <<current_audio, audio_start_time, audio_play_duration,
                               is_playing, task_pc, task_wake, played>>
           ELSE /\ audio_queue' = Tail(rest)
                /\ audio_start_time' = now
                /\ \E size_read \in BOOLEAN :
                     IF size_read
                       THEN LET play_time == PlayTime(Head(rest))
                            IN
                              /\ current_audio' = Head(rest)
                              /\ is_playing' = TRUE
                              /\ audio_play_duration' = play_time
                              /\ task_pc' = [task_pc EXCEPT ![t] = "playing"]
                              /\ task_wake' = [task_wake EXCEPT ![t] = now + play_time]
                              /\ played' = Append(played, Played(Head(rest), t, now, play_time))
                       ELSE /\ current_audio' = NoItem
                            /\ is_playing' = FALSE
                            /\ task_pc' = [task_pc EXCEPT ![t] = "pause"]
                            /\ task_wake' = [task_wake EXCEPT ![t] = now + PauseTime]
                            /\ UNCHANGED <<audio_play_duration, played>>
  /\ UNCHANGED <<task, cancelling, stop_pc, stop_task, next_item, next_task, file_exists,
                 dropped, aborted, status, refused, offered_at_stop>>
  /\ UNCHANGED <<stalls, now, limiter_vars, caller_vars, turn_vars, split_vars, wait_vars,
                 backoff_vars, sent_messages, call_tokens, earlier_appended>>

\* asyncio.sleep(play_time) returns: the state is reset, the short sleep starts
ConsumerPlayed(t) ==
  /\ t \in Tasks /\ task_pc[t] = "playing" /\ t \notin cancelling
  /\ now' = Max(now, task_wake[t])
  /\ current_audio' = NoItem
  /\ is_playing' = FALSE
  /\ task_pc' = [task_pc EXCEPT ![t] = "pause"]
  /\ task_wake' = [task_wake EXCEPT ![t] = now' + PauseTime]
  /\ UNCHANGED <<audio_queue, audio_start_time, audio_play_duration, task, cancelling,
                 stop_pc, stop_task, next_item, next_task, file_exists, played, dropped,
                 aborted, status, refused, offered_at_stop>>
  /\ UNCHANGED <<stalls, limiter_vars, caller_vars, turn_vars, split_vars, wait_vars,
                 backoff_vars, sent_messages, call_tokens, earlier_appended>>

\* asyncio.sleep(0.1) returns: the loop goes round to get()
ConsumerPaused(t) ==
  /\ t \in Tasks /\ task_pc[t] = "pause" /\ t \notin cancelling
  /\ now' = Max(now, task_wake[t])
  /\ task_pc' = [task_pc EXCEPT ![t] = "getting"]
  /\ task_wake' = [task_wake EXCEPT ![t] = 0]
  /\ UNCHANGED <<audio_queue, current_audio, audio_start_time, audio_play_duration,
                 is_playing, task, cancelling, stop_pc, stop_task, next_item, next_task,
                 file_exists, played, dropped, aborted, status, refused, offered_at_stop>>
  /\ UNCHANGED <<stalls, limiter_vars, caller_vars, turn_vars, split_vars, wait_vars,
                 backoff_vars, sent_messages, call_tokens, earlier_appended>>

\* a cancellation that also empties the queue
ConsumerCancelledEmptying(t) ==
  /\ t \in Tasks /\ t \in cancelling /\ ~Done(t)
  /\ cancelling' = cancelling \ {t}
  /\ task_pc' = [task_pc EXCEPT ![t] = "done"]
  /\ task_wake' = [task_wake EXCEPT ![t] = 0]
  /\ audio_queue' = <<>>
  /\ aborted' = IF task_pc[t] = "playing"
                  THEN aborted \cup {played[i].item : i \in {j \in 1..Len(played) :
                                        /\ played[j].task = t
                                        /\ \A k \in (j + 1)..Len(played) : played[k].task # t}}
                  ELSE aborted
  /\ UNCHANGED <<current_audio, audio_start_time, audio_play_duration,
                 is_playing, task, stop_pc, stop_task, next_item, next_task, file_exists,
                 played, dropped, status, refused, offered_at_stop>>
  /\ UNCHANGED <<now, stalls, limiter_vars, caller_vars, turn_vars, split_vars, wait_vars,
                 backoff_vars, sent_messages, call_tokens, earlier_appended>>

\* the cancelled consumer runs: CancelledError is raised where it is suspended;
\* both handlers leave the loop and the task is done.  Neither touches the
\* playback state or the queue.
ConsumerCancelled(t) ==
  /\ t \in Tasks /\ t \in cancelling /\ ~Done(t)
  /\ cancelling' = cancelling \ {t}
  /\ task_pc' = [task_pc EXCEPT ![t] = "done"]
  /\ task_wake' = [task_wake EXCEPT ![t] = 0]
  /\ aborted' = IF task_pc[t] = "playing"
                  THEN aborted \cup {played[i].item : i \in {j \in 1..Len(played) :
                                        /\ played[j].task = t
                                        /\ \A k \in (j + 1)..Len(played) : played[k].task # t}}
                  ELSE aborted
  /\ UNCHANGED <<audio_queue, current_audio, audio_start_time, audio_play_duration,
                 is_playing, task, stop_pc, stop_task, next_item, next_task, file_exists,
                 played, dropped, status, refused, offered_at_stop>>
  /\ UNCHANGED <<now, stalls, limiter_vars, caller_vars, turn_vars, split_vars, wait_vars,
                 backoff_vars, sent_messages, call_tokens, earlier_appended>>

\* stop(): a task that is there and not done is cancelled and awaited
StopCall ==
  /\ stop_pc = "idle"
  /\ task # NoTask /\ ~Done(task)
  /\ cancelling' = cancelling \cup {task}
  /\ stop_pc' = "awaiting"
  /\ stop_task' = task
  /\ offered_at_stop' = 1..(next_item - 1)
  /\ UNCHANGED <<audio_queue, current_audio, audio_start_time, audio_play_duration,
                 is_playing, task, task_pc, task_wake, next_item, next_task, file_exists,
                 played, dropped, aborted, status, refused>>
  /\ UNCHANGED <<now, stalls, limiter_vars, caller_vars, turn_vars, split_vars, wait_vars,
                 backoff_vars, sent_messages, call_tokens, earlier_appended>>

\* the awaited task is done: stop() resumes, self.task = None
StopReturns ==
  /\ stop_pc = "awaiting"
  /\ Done(stop_task)
  /\ task' = NoTask
  /\ stop_pc' = "idle"
  /\ stop_task' = NoTask
  /\ UNCHANGED <<audio_queue, current_audio, audio_start_time, audio_play_duration,
                 is_playing, task_pc, task_wake, cancelling, next_item, next_task,
                 file_exists, played, dropped, aborted, status, refused, offered_at_stop>>
  /\ UNCHANGED <<now, stalls, limiter_vars, caller_vars, turn_vars, split_vars, wait_vars,
                 backoff_vars, sent_messages, call_tokens, earlier_appended>>

NextAudio ==
  \/ Start
  \/ AddToQueue
  \/ FileRemoved
  \/ ClearQueue
  \/ GetStatus
  \/ StopCall
  \/ StopReturns
  \/ \E t \in 1..MaxTasks : ConsumerGet(t)
  \/ \E t \in 1..MaxTasks : ConsumerPlayed(t)
  \/ \E t \in 1..MaxTasks : ConsumerPaused(t)
  \/ \E t \in 1..MaxTasks : ConsumerCancelled(t)

SpecAudio == Init /\ [][NextAudio]_vars

\* the steps of consumer task t once the event loop resumes it
ConsumerStep(t) ==
  \/ ConsumerGet(t)
  \/ ConsumerPlayed(t)
  \/ ConsumerPaused(t)
  \/ ConsumerCancelled(t)

\* the event loop runs every task that is ready: a consumer whose get() can
\* return, whose sleep has ended or that was cancelled, and the stop() whose
\* awaited task is done
SpecAudioLive ==
  /\ Init /\ [][NextAudio]_vars
  /\ \A t \in 1..MaxTasks : WF_vars(ConsumerStep(t))
  /\ WF_vars(StopReturns)

(***************************************************************************)
(* Rate limiter and retrying gateway: the claims.                          *)
(***************************************************************************)
\* C2: the bucket's token count stays within [0, capacity], capacity being
\* rate_limit, whatever the acquire calls and the times between them.
C2_TokensWithinCapacity == tokens \in 0..rate_limit

\* a refill after a long pause was capped at capacity, and a token then taken
C2_Witness ==
  /\ stalls > 0
  /\ last_refill_time >= StartTime + TokenTimeout
  /\ last_request_time >= last_refill_time
  /\ tokens = rate_limit - 1

\* C3: any two consecutive successful acquisitions (updates of
\* last_request_time) are at least time_window / rate_limit apart.
C3_SpacingKept ==
  [][last_request_time' # last_request_time
       => last_request_time' - last_request_time >= min_interval]_vars

\* two callers acquired within one min_interval of the start, the second of them
\* exactly min_interval after the first
C3_Witness ==
  \E c, d \in Callers :
    /\ c # d
    /\ acquired[c] /\ acquired[d]
    /\ pc[c] = "idle" /\ pc[d] = "idle"
    /\ last_request_time = StartTime + min_interval
    /\ now = last_request_time

\* attempts of the caller's current execute_with_retry call
Attempts(c) == op_calls[c] + wait_timeouts[c]

\* C4: one call of execute_with_retry makes at most max_retries + 1 attempts,
\* counting invocations of the operation and token waits that timed out.
C4_AttemptsBounded == \A c \in Callers : Attempts(c) <= max_retries + 1

\* a call that used all its attempts, some on token timeouts and some on
\* rate-limit errors
C4_Witness ==
  \E c \in Callers :
    /\ Attempts(c) = max_retries + 1
    /\ op_calls[c] > 0
    /\ wait_timeouts[c] > 0
    /\ pc[c] = "idle"

\* C5 as stated: execute_with_retry raises only after all max_retries + 1
\* attempts have been made.
C5_RaisesOnlyWhenExhausted ==
  \A c \in Callers : result[c] = "raised" => Attempts(c) = max_retries + 1

\* C5 amended: a failure raised before the last attempt is an error of the
\* operation that is not of the rate-limit class; a rate-limit error or a token
\* timeout is raised only once all max_retries + 1 attempts have been made.
C5_RaisesEarlyOnlyOtherErrors ==
  \A c \in Callers :
    result[c] = "raised" =>
      \/ Attempts(c) = max_retries + 1
      \/ last_err[c].kind = "other"

\* a rate-limit error raised on the last attempt
C5_Witness ==
  \E c \in Callers :
    /\ result[c] = "raised"
    /\ last_err[c].kind = "rate_limit"
    /\ Attempts(c) = max_retries + 1

\* C6: an error of the operation that is not of the rate-limit class ends the call
\* on the attempt that met it: the call has raised, with no sleep after it and
\* no further invocation, whatever the attempt index.
C6_OtherErrorPropagates ==
  \A c \in Callers :
    last_err[c].kind = "other" =>
      /\ pc[c] = "idle"
      /\ result[c] = "raised"
      /\ wake_at[c] = 0
      /\ Attempts(c) = attempt[c] + 1

\* such an error met on the third attempt, after a timeout and a rate-limit error
C6_Witness ==
  \E c \in Callers :
    /\ last_err[c].kind = "other"
    /\ attempt[c] = 2
    /\ wait_timeouts[c] = 1
    /\ backoffs[c] = 2
    /\ result[c] = "raised"

(***************************************************************************)
(* The turn and its consumers: the claims.                                 *)
(***************************************************************************)
EventsOfType(type) == {i \in 1..Len(events) : events[i].type = type}
TurnOver == gen_pc \in {"finished", "crashed"}

\* C1: in every turn of process_stream_chat (the probe says stop or tool_calls,
\* the probe fails, the stream fails after some chunks) the events emitted begin
\* with the one start event and, the turn over, end with the one end event;
\* nothing is emitted before start or after end.
C1_StartFirstEndLast ==
  /\ Len(events) > 0 => events[1].type = "start"
  /\ EventsOfType("start") \subseteq {1}
  /\ EventsOfType("end") \subseteq {Len(events)}
  /\ gen_pc \notin {"none", "start"} => EventsOfType("start") = {1}
  /\ gen_pc = "ended" \/ TurnOver => EventsOfType("end") = {Len(events)}

\* a turn whose stream failed after a chunk, iterated to its end
C1_Witness ==
  /\ consumer = "drain" /\ gen_pc = "finished"
  /\ exceptions = <<"stream">>
  /\ EventsOfType("chunk") # {}
  /\ events[Len(events)].type = "end"

\* C7: an exception out of a gateway call (the probe, the streaming call, the
\* stream as it is read) or out of the tool loop is caught inside
\* process_stream_chat and becomes one error event; none leaves the generator.
C7_ExceptionsBecomeOneError ==
  /\ ~escaping
  /\ gen_pc # "crashed"
  /\ Len(exceptions) <= 1
  /\ Cardinality(EventsOfType("error")) = Len(exceptions)

\* a turn in which json.loads raised in the tool loop, iterated to its end
C7_Witness ==
  /\ consumer = "drain" /\ gen_pc = "finished"
  /\ exceptions = <<"json">>
  /\ Cardinality(EventsOfType("error")) = 1

\* C8 (as the specification words it): every turn served by /chat/stream
\* reaches end in the events delivered to the caller, the turns whose failure
\* became an error event included.
C8_DeliveredReachesEnd ==
  router_pc = "returned" =>
    /\ Len(delivered) > 0
    /\ delivered[Len(delivered)].type = "end"

UnknownCalls == {i \in 1..Len(tool_calls) : tool_calls[i].name # "$web_search"}
ArgumentsParse == \A i \in 1..Len(tool_calls) : tool_calls[i].arguments = "json"
ToolMessages == SelectSeq(messages, LAMBDA m : m.role = "tool")
PastToolLoop == gen_pc \in {"stream", "stream_wait", "streaming", "finally", "ended",
                            "finished", "crashed"}

\* C9: a turn whose probe says tool_calls and names a tool that is not known
\* does not raise for it: the tool message appended for that call carries the
\* error string, the name gives rise to no exception and no error event, and
\* (the arguments being JSON) the turn goes on to the streaming call and, over,
\* has emitted end.
C9_UnknownToolInBand ==
  /\ \A i \in 1..Len(ToolMessages) :
       /\ ToolMessages[i].tool_call_id = tool_calls[i].id
       /\ ToolMessages[i].name = tool_calls[i].name
       /\ i \in UnknownCalls =>
            ToolMessages[i].content = "Error: unable to find tool by name"
  /\ UnknownCalls # {} /\ ArgumentsParse =>
       /\ \A k \in 1..Len(exceptions) : exceptions[k] \in {"gateway", "stream"}
       /\ gen_pc # "crashed"
       /\ PastToolLoop => Len(ToolMessages) = Len(tool_calls)
       /\ gen_pc \in {"stream_wait", "streaming"} => calls_made = <<"probe", "stream">>
       /\ gen_pc \in {"finally", "ended", "finished"} => calls_made = <<"probe", "stream">>
       /\ gen_pc \in {"stream", "stream_wait", "streaming"} => EventsOfType("error") = {}
       /\ gen_pc = "finished" => events[Len(events)].type = "end"

\* a turn with an unknown tool among its calls that streamed its answer
C9_Witness ==
  /\ consumer = "drain" /\ gen_pc = "finished"
  /\ UnknownCalls # {} /\ ArgumentsParse
  /\ exceptions = <<>>
  /\ EventsOfType("chunk") # {}
  /\ \E i \in 1..Len(ToolMessages) :
       ToolMessages[i].content = "Error: unable to find tool by name"

Terminators == {"fw_period", "fw_question", "fw_exclaim", ".", "?", "!"}
TerminatorsAt(text) == {i \in 1..Len(text) : text[i] \in Terminators}

\* C10 (as the specification words it): the chunk step hands a segment to the
\* synthesis only when a terminator is found in the buffered text and the
\* segment is longer than the threshold.
C10_SegmentOnlyAtTerminator ==
  consumer = "feed" =>
    \A i \in 1..Len(synth) :
      /\ TerminatorsAt(synth[i].text) # {}
      /\ Len(synth[i].text) > MinSentenceEnd

\* C10 (as the code has it): with TTS on, the chunk step cuts a segment off the
\* buffer (the text accumulated, the chunk included) in two cases: the first
\* terminator lies after the 11th character, and the segment ends with it; or
\* there is no terminator and the buffer is longer than 50 characters, and the
\* segment is the whole buffer.  In every other case nothing is cut and the
\* buffer is kept.
C10_SegmentAtTerminatorOrLongText ==
  [][consumer = "feed" /\ events' # events =>
       LET buffer == accumulated_text \o events'[Len(events')].content
           ends == TerminatorsAt(buffer)
           cut == IF ends # {} THEN SetMin(ends) ELSE Len(buffer)
       IN  IF /\ tts_enabled
              /\ \/ ends # {} /\ SetMin(ends) > MinSentenceEnd + 1
                 \/ ends = {} /\ Len(buffer) > LongTextLen
             THEN /\ Len(synth') = Len(synth) + 1
                  /\ synth'[Len(synth')].text = SubSeq(buffer, 1, cut)
                  /\ accumulated_text' = SubSeq(buffer, cut + 1, Len(buffer))
             ELSE /\ synth' = synth
                  /\ accumulated_text' = buffer]_vars

\* a segment without a terminator was cut, and one that ends with a terminator
C10_Witness ==
  /\ consumer = "feed"
  /\ \E i \in 1..Len(synth) :
       /\ TerminatorsAt(synth[i].text) = {}
       /\ Len(synth[i].text) > LongTextLen
  /\ \E i \in 1..Len(synth) :
       TerminatorsAt(synth[i].text) = {Len(synth[i].text)}


\* C11: when the chunk step cuts a segment off a buffer that holds a
\* terminator, the segment is the prefix of the buffer that ends at the earliest
\* terminator of the fixed set, the remainder is what follows it, and segment
\* and remainder together are the buffer; a buffer without terminator that is as
\* short as "Hi" gives no segment.
C11_SegmentEndsAtEarliestTerminator ==
  [][consumer = "feed" /\ events' # events =>
       LET buffer == accumulated_text \o events'[Len(events')].content
           segment == synth'[Len(synth')].text
       IN  /\ synth' # synth /\ TerminatorsAt(buffer) # {} =>
                /\ segment \o accumulated_text' = buffer
                /\ TerminatorsAt(segment) = {Len(segment)}
           /\ TerminatorsAt(buffer) = {} /\ Len(buffer) <= LongTextLen =>
                /\ synth' = synth
                /\ accumulated_text' = buffer]_vars

\* a segment that ends with the first of two terminators was cut, and text that
\* holds the second one remains
C11_Witness ==
  /\ consumer = "feed"
  /\ Len(synth) > 0
  /\ TerminatorsAt(synth[Len(synth)].text) = {Len(synth[Len(synth)].text)}
  /\ synth[Len(synth)].text[Len(synth[Len(synth)].text)] = "!"
  /\ accumulated_text = <<"a", ".">>


(***************************************************************************)
(* split_text_for_tts: the claims.                                         *)
(***************************************************************************)
RECURSIVE Concat(_)
Concat(ps) == IF ps = <<>> THEN <<>> ELSE Head(ps) \o Concat(Tail(ps))

\* C12: for every text and every max_length >= 1, each segment that
\* split_text_for_tts returns is at most max_length long, also when one sentence
\* or one comma-delimited clause is longer than max_length.
C12_SegmentsWithinMaxLength ==
  split_called => \A k \in 1..Len(paragraphs) : Len(paragraphs[k]) <= max_length

\* a clause without comma or terminator, longer than max_length, was cut into
\* several segments
C12_Witness ==
  /\ split_called
  /\ \A i \in 1..Len(split_text) : split_text[i] = "a"
  /\ Len(split_text) > 2 * max_length
  /\ Len(paragraphs) >= 3

\* C13 (as the specification words it): the segments returned by
\* split_text_for_tts, joined in order, are the text it was given.
C13_SegmentsRebuildText ==
  split_called => Concat(paragraphs) = split_text


(***************************************************************************)
(* AudioManager: the claims.  Items are numbered in the order in which     *)
(* they were offered to add_to_queue.                                      *)
(***************************************************************************)
Queued == {audio_queue[i] : i \in 1..Len(audio_queue)}
InPlayback == {t \in Tasks : task_pc[t] = "playing"}
\* the item a task made current last, were it one
LastPlayedBy(t) ==
  {played[j].item : j \in {i \in 1..Len(played) :
                             /\ played[i].task = t
                             /\ \A k \in (i + 1)..Len(played) : played[k].task # t}}

C15_OneItemPlaying ==
  /\ Cardinality(InPlayback) <= 1
  /\ current_audio = NoItem => ~is_playing

\* C16: when clear_queue() returns the queue is empty and is_playing false, and
\* no item that clear_queue() took off the queue ever becomes the current item,
\* a playback being in progress or not.
C16_ClearDropsPending ==
  /\ [](\A i \in 1..Len(played) : played[i].item \notin dropped)
  /\ [](current_audio \notin dropped)
  /\ [][ClearQueue =>
          /\ Len(audio_queue') = 0
          /\ ~is_playing'
          /\ current_audio' = NoItem
          /\ Queued \subseteq dropped']_vars

\* two pending items were cleared while a third was in playback
C16_Witness ==
  /\ Cardinality(dropped) >= 2
  /\ InPlayback # {}
  /\ audio_queue = <<>>
  /\ ~is_playing

\* C17 (as the specification words it): when stop() has cancelled the consumer
\* in the playback sleep of an item, the playback state is idle once stop() has
\* returned: no current item and is_playing false.
C17_StopLeavesIdle ==
  [][/\ stop_pc = "awaiting" /\ stop_pc' = "idle"
     /\ LastPlayedBy(stop_task) \cap aborted # {}
     => /\ current_audio' = NoItem
        /\ ~is_playing']_vars

\* C18: a cancellation of the consumer in the playback sleep of an item aborts
\* that item only: the queue is left as it is, and the items in it are made
\* current in their order by the consumer started next.
C18_CancelKeepsPending ==
  /\ [][(\E t \in Tasks : t \in cancelling /\ t \notin cancelling') =>
          /\ audio_queue' = audio_queue
          /\ file_exists' = file_exists]_vars
  /\ [][Len(played') > Len(played) =>
          LET item == played'[Len(played')].item
          IN  /\ item = current_audio'
              /\ item \in Queued
              /\ \A q \in Queued : q < item => q \notin file_exists
              /\ audio_queue' = SelectSeq(audio_queue, LAMBDA q : q > item)]_vars

\* the playback of the first item was cancelled; the two items that were
\* waiting have been played, in their order, by a later consumer
C18_Witness ==
  /\ 1 \in aborted
  /\ Len(played) = 3
  /\ played[2].item = 2 /\ played[3].item = 3
  /\ played[2].task # played[1].task
  /\ played[3].task = played[2].task
  /\ 2 \notin aborted


(***************************************************************************)
(* The token bucket: the claims about one acquire.                         *)
(***************************************************************************)
\* C19: acquire() returns True only if a token is left after the refill step;
\* when it does, exactly one token is taken and last_request_time is set to the
\* time of the take; when it returns False, the token count and
\* last_request_time are as they were.
C19_AcquireTakesOneToken ==
  [][\A c \in Callers :
       pc[c] = "acq_take" /\ pc'[c] # "acq_take" =>
         IF acquired'[c]
           THEN /\ tokens >= 1
                /\ tokens' = tokens - 1
                /\ last_request_time' = now'
           ELSE /\ tokens = 0
                /\ tokens' = tokens
                /\ last_request_time' = last_request_time]_vars

\* a caller is back from an acquire that refilled the bucket and, a moment
\* later, took one token of it
C19_Witness ==
  \E c \in Callers :
    /\ pc[c] = "idle" /\ acquired[c]
    /\ last_request_time = now
    /\ last_request_time > last_refill_time
    /\ tokens = rate_limit - 1
    /\ credited >= 1

\* C20 (as the specification words it): the tokens credited over a sequence of
\* acquires are elapsed_time / time_window * rate_limit for the whole time
\* elapsed up to the last refill.
C20_CreditedMatchesElapsed ==
  LET elapsed == last_refill_time - StartTime
  IN  /\ credited * time_window <= elapsed * rate_limit
      /\ elapsed * rate_limit < (credited + 1) * time_window

\* C20 (as the code has it): each refill step credits the whole tokens of
\* elapsed_time / time_window * rate_limit, elapsed_time counted from
\* last_refill_time, caps the count at rate_limit and, when it credits any,
\* moves last_refill_time to the time read, which drops the fraction; the total
\* credited never exceeds the formula applied to the whole time elapsed.
C20_RefillCreditsWholeTokens ==
  /\ [](credited * time_window <= (last_refill_time - StartTime) * rate_limit)
  /\ [][\A c \in Callers :
          pc[c] = "acq_refill" /\ pc'[c] = "acq_take" =>
            LET elapsed == current_time[c] - last_refill_time
                new == credited' - credited
            IN  /\ new >= 0
                /\ new * time_window <= elapsed * rate_limit
                /\ elapsed * rate_limit < (new + 1) * time_window
                /\ tokens' = IF tokens + new > rate_limit THEN rate_limit ELSE tokens + new
                /\ last_refill_time' = IF new > 0 THEN current_time[c] ELSE last_refill_time]_vars

\* refills have dropped fractions that add up to a whole token
C20_Witness ==
  /\ credited >= 2
  /\ (last_refill_time - StartTime) * rate_limit - credited * time_window >= time_window

(***************************************************************************)
(* wait_for_token called by concurrent threads.                            *)
(***************************************************************************)
\* caller c is inside a wait_for_token call it made itself
InWait(c) == op[c] = "wait"

\* C21: wait_for_token(timeout) returns True exactly when one of its polls of
\* acquire succeeded, having consumed exactly one token; it returns False only
\* once the timeout has elapsed, having consumed no token; a token taken by a
\* poll ends the call at once; and every call returns.
C21_WaitReturnsBoolean ==
  /\ [][\A c \in Callers :
          (InWait(c) /\ op'[c] = "none") =>
            /\ got_token'[c] \in BOOLEAN
            /\ got_token'[c] = (taken'[c] = 1)
            /\ taken'[c] \in {0, 1}
            /\ ~got_token'[c] => now - start_time[c] >= timeout[c]]_vars
  /\ [](\A c \in Callers : (InWait(c) /\ taken[c] > 0) => pc[c] = "wft_polled")
  /\ \A c \in Callers : InWait(c) ~> (op[c] = "none")

\* one caller's call has returned True with its one token while the other's call
\* with a 0.2 s timeout has returned False with none
C21_Witness ==
  \E c, d \in Callers :
    /\ c # d
    /\ op[c] = "none" /\ timeout[c] = 2 /\ got_token[c] /\ taken[c] = 1
    /\ op[d] = "none" /\ timeout[d] = 2 /\ ~got_token[d] /\ taken[d] = 0
    /\ tokens < rate_limit

(***************************************************************************)
(* The wait of the rate-limit handler, for every retry delay.              *)
(***************************************************************************)
\* the handler has computed a wait
WaitComputed == wait_err # NoError

\* C22 as stated: after a rate-limit failure on a non-final attempt the delay is
\* the server's hint plus a positive margin when there is one, and otherwise
\* max(base_delay, base_delay * 2^attempt), for every base_delay and attempt.
C22_BackoffFromBaseDelay ==
  WaitComputed =>
    IF wait_err.after # NoHint
      THEN wait_time > wait_err.after * 10
      ELSE wait_time = Max(base_delay, base_delay * Pow2(wait_attempt))

\* C22: after a rate-limit failure on a non-final attempt the delay is the
\* server's hint plus a positive margin when there is one, and otherwise
\* max(1 s, base_delay * 2^attempt), which is base_delay * 2^attempt whenever
\* that is at least 1 s.
C22_BackoffAtLeastOneSecond ==
  WaitComputed =>
    /\ wait_err.after # NoHint => wait_time = wait_err.after * 10 + SafetyMargin
    /\ wait_err.after # NoHint => wait_time > wait_err.after * 10
    /\ wait_err.after = NoHint =>
         /\ wait_time = Max(MinBackoff, base_delay * Pow2(wait_attempt))
         /\ base_delay * Pow2(wait_attempt) >= MinBackoff =>
              wait_time = Max(base_delay, base_delay * Pow2(wait_attempt))

\* a limiter with a retry delay of 0.5 s backs off 1 s at attempt 0
C22_Witness ==
  /\ WaitComputed
  /\ wait_err.after = NoHint
  /\ base_delay = 5
  /\ wait_attempt = 0
  /\ wait_time = MinBackoff

(***************************************************************************)
(* execute_with_retry when the token wait times out.                       *)
(***************************************************************************)
\* caller c is back from a wait_for_token that returned False
WaitTimedOut(c) == pc[c] = "ewr_waited" /\ ~got_token[c]

\* C23: when the token wait of an attempt times out, execute_with_retry raises
\* the timeout failure if the attempt is the final one, and otherwise sleeps
\* base_delay * (attempt + 1) and goes to the next attempt, the operation not
\* being invoked on that attempt; the timeout failure is not of the rate-limit
\* class, is raised only on the final attempt and is followed by no sleep.
C23_TokenTimeoutAbortsOrRetries ==
  /\ [][\A c \in Callers :
          (WaitTimedOut(c) /\ pc'[c] # "ewr_waited") =>
            /\ op_calls'[c] = op_calls[c]
            /\ IF attempt[c] = max_retries
                 THEN /\ result'[c] = "raised"
                      /\ last_err'[c] = TokenTimeoutError
                      /\ pc'[c] = "idle"
                      /\ wake_at'[c] = 0
                      /\ backoffs'[c] = backoffs[c]
                 ELSE /\ result'[c] = "running"
                      /\ pc'[c] = "ewr_sleep"
                      /\ wake_at'[c] = now + retry_delay * (attempt[c] + 1)
                      /\ last_err'[c] = last_err[c]]_vars
  /\ [][\A c \in Callers :
          (pc[c] = "ewr_sleep" /\ pc'[c] # "ewr_sleep") =>
            /\ pc'[c] = "ewr_loop"
            /\ attempt'[c] = attempt[c] + 1
            /\ op_calls'[c] = op_calls[c]
            /\ now' >= wake_at[c]]_vars
  /\ [](\A c \in Callers :
          last_err[c] = TokenTimeoutError =>
            /\ ~IsRateLimit(last_err[c])
            /\ last_err[c] \notin RateLimitErrors
            /\ result[c] = "raised"
            /\ attempt[c] = max_retries
            /\ pc[c] = "idle")

\* a call whose second and third token waits timed out, each followed by its sleep,
\* and whose final token wait timed out too: it has raised the timeout failure
C23_Witness ==
  \E c \in Callers :
    /\ result[c] = "raised"
    /\ last_err[c] = TokenTimeoutError
    /\ wait_timeouts[c] = 3
    /\ op_calls[c] = 1
    /\ backoffs[c] = 3

(***************************************************************************)
(* The message list of a turn with tool calls.                             *)
(***************************************************************************)
\* the message list stream_chat built for the turn
TurnBase == <<SystemMessage>> \o history \o <<UserMessage>>

\* what the turn has appended to its message list
Appended == SubSeq(messages, Len(TurnBase) + 1, Len(messages))

\* the tool calls the loop has been through
CallsDone ==
  IF gen_pc = "tool_loop" THEN tool_idx - 1
  ELSE IF gen_pc \in {"stream", "stream_wait", "streaming"} THEN Len(tool_calls)
  ELSE Len(ToolMessages)

\* the probe said tool_calls and the loop over the calls ran to its end
ToolsCompleted ==
  /\ tool_calls # <<>>
  /\ gen_pc = "stream" \/ Len(calls_made) = 2

\* C24: when the probe returns tool_calls with n calls and the tool loop
\* completes, the message list has grown by exactly n + 1 messages before the
\* streaming call: the assistant message carrying the tool-call request, then one
\* role-"tool" message per call in call order, each carrying its call's id, so
\* that each call has exactly one tool message; while the loop runs, the list
\* holds the assistant message and the tool messages of the calls gone through.
C24_ToolCallsAppendedOnce ==
  /\ ToolsCompleted =>
       /\ Len(messages) = Len(TurnBase) + Len(tool_calls) + 1
       /\ SubSeq(messages, 1, Len(TurnBase)) = TurnBase
       /\ Appended[1].role = "assistant" /\ Appended[1].calls = tool_calls
       /\ \A i \in 1..Len(tool_calls) :
            /\ Appended[i + 1].role = "tool"
            /\ Appended[i + 1].tool_call_id = tool_calls[i].id
            /\ Appended[i + 1].name = tool_calls[i].name
       /\ \A i \in 1..Len(tool_calls) :
            Cardinality({k \in 1..Len(messages) :
                           /\ messages[k].role = "tool"
                           /\ messages[k].tool_call_id = tool_calls[i].id}) = 1
  /\ (tool_calls # <<>> /\ gen_pc \notin {"tool_assistant", "none", "start", "probe", "probe_wait"}) =>
       /\ Len(Appended) = CallsDone + 1
       /\ Appended[1].role = "assistant"
       /\ \A i \in 1..CallsDone : Appended[i + 1].tool_call_id = tool_calls[i].id
  /\ tool_calls = <<>> => messages \in {<<>>, TurnBase}

\* a turn with an earlier exchange in its history whose probe asked for two tool
\* calls: both are answered and the streaming call is about to be made
C24_Witness ==
  /\ gen_pc = "stream"
  /\ history # <<>>
  /\ Len(tool_calls) = 2
  /\ calls_made = <<"probe">>
  /\ Len(messages) = Len(TurnBase) + 3
  /\ messages[Len(messages)].tool_call_id = 2

(***************************************************************************)
(* event_generator and the speech synthesis.                               *)
(***************************************************************************)
\* the last thing sent to the client
LastSent == delivered[Len(delivered)]

\* C25: when event_generator handles the end event with synthesis enabled and
\* text left in its buffer, it makes exactly one more synthesis call, on that
\* text, and sends end with the audio reference of that call if it gave one and
\* with none otherwise; with an empty buffer (or synthesis disabled) it makes no
\* synthesis call and sends end without an audio reference.
C25_EndFlushesResidualOnce ==
  [][(Handed("end") /\ router_pc' = "returned") =>
       /\ LastSent'.type = "end"
       /\ IF tts_enabled /\ accumulated_text # <<>>
            THEN /\ Len(synth') = Len(synth) + 1
                 /\ SubSeq(synth', 1, Len(synth)) = synth
                 /\ synth'[Len(synth')].text = accumulated_text
                 /\ LastSent'.audio_url =
                      IF synth'[Len(synth')].ok THEN Len(synth') ELSE NoAudio
            ELSE /\ synth' = synth
                 /\ LastSent'.audio_url = NoAudio]_vars

\* a turn with synthesis enabled that cut one sentence off its buffer and, at
\* end, handed the text left over to a last synthesis call
C25_Witness ==
  /\ consumer = "router" /\ router_pc = "returned"
  /\ tts_enabled
  /\ LastSent.type = "end"
  /\ Len(synth) = 2
  /\ accumulated_text # <<>>
  /\ synth[2].text = accumulated_text

\* the contents of the chunk entries of a sequence of events, in order
ChunkTexts(seq) ==
  LET chunks == SelectSeq(seq, LAMBDA e : e.type = "chunk")
  IN  [i \in 1..Len(chunks) |-> chunks[i].content]

\* the texts handed to text_to_speech, in order
SynthTexts == [i \in 1..Len(synth) |-> synth[i].text]

\* the chunk branch has just handed a sentence to a synthesis that failed
SynthesisFailedNow ==
  /\ Len(synth') = Len(synth) + 1
  /\ ~synth'[Len(synth')].ok
  /\ router_pc' = "iterating"

\* C26: a synthesis that fails for a segment is not fatal.  The step sends the
\* chunk and nothing else (no audio, no error), takes the segment's text out of
\* the buffer and goes on iterating; no text is handed to the synthesis twice;
\* every chunk event handled was sent on; and event_generator returns only after
\* sending end, or after sending an error that the generator itself yielded.
C26_SynthesisFailureNotFatal ==
  /\ [][(consumer = "router" /\ SynthesisFailedNow) =>
          /\ delivered' = Append(delivered, Sent("chunk", LastEvent.content, NoAudio))
          /\ accumulated_text \o LastEvent.content =
               synth'[Len(synth')].text \o accumulated_text'
          /\ gen_run']_vars
  /\ [](consumer = "router" =>
          /\ (tts_enabled /\ (delivered = <<>> \/ LastSent.type # "end")) =>
               Concat(SynthTexts) \o accumulated_text = Concat(ChunkTexts(delivered))
          /\ (tts_enabled /\ delivered # <<>> /\ LastSent.type = "end") =>
               Concat(SynthTexts) = Concat(ChunkTexts(delivered))
          /\ ChunkTexts(delivered) =
               SubSeq(ChunkTexts(events), 1,
                      Len(ChunkTexts(events)) - (IF Handed("chunk") THEN 1 ELSE 0))
          /\ \A i \in 1..Len(delivered) :
               delivered[i].type = "audio" => synth[delivered[i].audio_url].ok
          /\ router_pc = "returned" =>
               /\ LastSent.type \in {"end", "error"}
               /\ LastSent.type = "error" => EventsOfType("error") # {})

\* a turn in which the synthesis of a sentence failed, a later chunk was sent on,
\* and end was sent; nothing but chunks came before it
C26_Witness ==
  /\ consumer = "router" /\ router_pc = "returned"
  /\ tts_enabled
  /\ Len(synth) >= 1 /\ ~synth[1].ok /\ ~IsBlank(synth[1].text)
  /\ LastSent.type = "end"
  /\ Len(ChunkTexts(delivered)) = 3
  /\ Concat(ChunkTexts(delivered)) # synth[1].text
  /\ \A i \in 1..(Len(delivered) - 1) : delivered[i].type = "chunk"

(***************************************************************************)
(* AudioManager: the consumer tasks.                                       *)
(***************************************************************************)
\* the consumer tasks created and not finished
Alive == {t \in Tasks : ~Done(t)}

\* C27: whatever the interleaving of start(), add_to_queue() and stop(), at most
\* one consumer task is alive (created and not finished) at any time.
C27_AtMostOneConsumerAlive == Cardinality(Alive) <= 1

\* the items that have been current
PlayedItems == {played[k].item : k \in 1..Len(played)}

\* the items taken off the queue by a consumer that found their file missing
Skipped ==
  {i \in 1..(next_item - 1) :
     /\ i \notin refused /\ i \notin Queued /\ i \notin dropped
     /\ i \notin PlayedItems /\ i \notin file_exists}

\* C28: an item whose file is missing is skipped without harm.  add_to_queue
\* returns False for it exactly when the file is missing at the call, and then
\* leaves the queue and the tasks alone; an item refused, or whose file is gone
\* when it is taken off the queue, is never the current item; a consumer task
\* ends only by cancellation, never over a missing file; and the items that do
\* become current do so in the order in which they were enqueued.
C28_MissingFileSkipped ==
  /\ [][next_item' # next_item =>
          /\ (next_item \in refused') = (next_item \notin file_exists')
          /\ next_item \in refused' =>
               /\ audio_queue' = audio_queue
               /\ task' = task /\ task_pc' = task_pc
          /\ next_item \notin refused' => audio_queue' = Append(audio_queue, next_item)]_vars
  /\ [][\A i \in Queued :
          (i \notin file_exists /\ i \notin Queued' /\ i \notin dropped') =>
            /\ current_audio' # i
            /\ i \notin PlayedItems'
            /\ task_pc' # task_pc => \A t \in Tasks : ~Done(t) => ~Done(t)']_vars
  /\ [][\A t \in Tasks : (~Done(t) /\ Done(t)') => t \in cancelling]_vars
  /\ [](/\ \A i \in refused \cup Skipped : current_audio # i
        /\ refused \cap (Queued \cup PlayedItems \cup file_exists) = {}
        /\ current_audio # NoItem => current_audio \in file_exists
        /\ PlayedItems \subseteq file_exists
        /\ \A j, k \in 1..Len(played) : j < k => played[j].item < played[k].item)

\* add_to_queue refused the first item, the file of the second was removed while
\* it was queued, and the consumer that passed over it has made the third current
C28_Witness ==
  /\ refused = {1}
  /\ Skipped = {2}
  /\ Len(played) = 1 /\ played[1].item = 3
  /\ current_audio = 3
  /\ Cardinality(Alive) = 1

(***************************************************************************)
(* The token bucket under concurrent callers.                              *)
(***************************************************************************)
\* caller c is inside the `with self.lock` block of acquire
InAcquire(c) == pc[c] \in {"acq_sleep", "acq_refill", "acq_take"}

\* C29: the bucket state is read and written only by the caller that holds the
\* lock of acquire, one caller at a time, and under every interleaving of
\* concurrent callers the acquire calls that succeeded, together with the tokens
\* still in the bucket, never exceed the initial token count plus the tokens
\* credited by refills; each success took one token.
C29_TokensGrantedOnce ==
  /\ [](/\ \A c \in Callers : InAcquire(c) <=> lock = c
        /\ Cardinality({c \in Callers : InAcquire(c)}) <= 1
        /\ granted + tokens <= rate_limit + credited
        /\ granted <= rate_limit + credited
        /\ tokens >= 0)
  /\ [][<<tokens, last_refill_time, last_request_time>>' #
          <<tokens, last_refill_time, last_request_time>> =>
            /\ lock # NoCaller
            /\ InAcquire(lock)
            /\ pc'[lock] # pc[lock]
            /\ \A d \in Callers \ {lock} : pc'[d] = pc[d]]_vars
  /\ [][granted' # granted =>
          /\ granted' = granted + 1
          /\ tokens' = tokens - 1
          /\ lock # NoCaller /\ acquired'[lock]]_vars

\* both callers wait for the lock, one gets it and sleeps for the spacing while
\* the other is kept out; three acquisitions have been granted so far, one of
\* them from a refill
C29_Witness ==
  \E c, d \in Callers :
    /\ c # d
    /\ pc[c] = "acq_sleep" /\ lock = c
    /\ pc[d] = "acq_lock"
    /\ granted = 3
    /\ credited >= 1

(***************************************************************************)
(* The message list across the gateway calls of a turn.                    *)
(***************************************************************************)
\* a gateway call of the turn is in progress
InGatewayCall == gen_pc \in {"probe_wait", "stream_wait"}

\* C30: within a turn the message list only grows at its end, one message at a
\* time, after stream_chat has built it from the history; it changes only while
\* no gateway call is in progress; and every attempt of a gateway call is made
\* with the contents the first attempt of that call was made with, which are
\* the contents of the list throughout the call.
C30_HistoryAppendOnlyBetweenCalls ==
  /\ [][messages' # messages =>
          /\ ~InGatewayCall
          /\ \A c \in Callers : op[c] = "none" /\ op'[c] = "none"
          /\ IF gen_pc = "none"
               THEN messages' = <<SystemMessage>> \o history' \o <<UserMessage>>
               ELSE /\ Len(messages') = Len(messages) + 1
                    /\ SubSeq(messages', 1, Len(messages)) = messages
                    /\ history' = history]_vars
  /\ [][InGatewayCall /\ InGatewayCall' => messages' = messages]_vars
  /\ [](\A k \in 1..Len(sent_messages) :
          /\ sent_messages[k] = sent_messages[1]
          /\ sent_messages[k] = messages)
  /\ [](InGatewayCall => \A c \in Executors : Len(sent_messages) = op_calls[c])

\* the streaming call of a turn that appended an assistant and a tool message is
\* at its third attempt, the first two having met rate-limit errors
C30_Witness ==
  /\ gen_pc = "stream_wait"
  /\ tool_calls # <<>>
  /\ Len(messages) > Len(TurnBase)
  /\ Len(sent_messages) = 2
  /\ \E c \in Executors : attempt[c] = 2 /\ pc[c] = "ewr_call"

(***************************************************************************)
(* The two mechanisms of acquire together: spacing and the bucket.         *)
(***************************************************************************)
\* C31: with the clock read exactly, acquire() never returns False, whatever
\* the callers and the times of their calls: when the refill step runs, a token
\* is left in the bucket or the time since the last refill is worth at least
\* one; when the bucket test runs, a token is there; and the call returns True.
C31_AcquireNeverRejects ==
  /\ [](\A c \in Callers :
          /\ pc[c] = "acq_refill" => tokens > 0 \/ NewTokens(current_time[c]) > 0
          /\ pc[c] = "acq_refill" /\ granted > 0 => NewTokens(current_time[c]) > 0
          /\ pc[c] = "acq_take" => tokens > 0)
  /\ [][\A c \in Callers :
          pc[c] = "acq_take" /\ pc'[c] # "acq_take" =>
            acquired'[c] /\ granted' = granted + 1]_vars

\* a burst: after two grants a caller that was made to sleep for the spacing is
\* at the bucket test just one min_interval after the last grant, the refill
\* has credited the token it is about to take, and the other caller waits for
\* the lock
C31_Witness ==
  \E c, d \in Callers :
    /\ c # d
    /\ pc[c] = "acq_take" /\ pc[d] = "acq_lock"
    /\ granted >= 2
    /\ current_time[c] = last_request_time + min_interval
    /\ last_refill_time = current_time[c]
    /\ credited >= 2

(***************************************************************************)
(* Tokens and invocations of one execute_with_retry.                       *)
(***************************************************************************)
\* the caller holds a token it acquired for the current attempt and has not
\* yet invoked the operation with
TokenInHand(c) ==
  \/ pc[c] = "wft_polled" /\ acquired[c]
  \/ pc[c] = "ewr_waited" /\ got_token[c]
  \/ pc[c] = "ewr_call"

\* C32: inside execute_with_retry every invocation of the wrapped operation
\* follows exactly one successful acquisition made in the same attempt, every
\* successful acquisition is followed by an invocation, and no step but a
\* refill adds a token to the bucket, so a failed invocation gives nothing
\* back: a call that has invoked the operation k times has consumed k tokens.
C32_OneTokenPerInvocation ==
  /\ [](\A c \in Executors :
          op[c] = "execute" =>
            /\ call_tokens[c] = op_calls[c] + (IF TokenInHand(c) THEN 1 ELSE 0)
            /\ taken[c] <= 1
            /\ TokenInHand(c) => taken[c] = 1)
  /\ [](\A c \in Executors :
          result[c] \in {"returned", "raised"} => call_tokens[c] = op_calls[c])
  /\ [][\A c \in Executors :
          op_calls'[c] = op_calls[c] + 1 =>
            /\ taken[c] = 1 /\ got_token[c]
            /\ call_tokens[c] = op_calls[c] + 1
            /\ <<tokens, granted, credited>>' = <<tokens, granted, credited>>]_vars
  /\ [][tokens' > tokens =>
          /\ tokens' - tokens <= credited' - credited
          /\ \E c \in Callers : pc[c] = "acq_refill" /\ pc'[c] = "acq_take"]_vars
  /\ [][\A c \in Executors :
          call_tokens'[c] = call_tokens[c] + 1 =>
            /\ tokens' = tokens - 1
            /\ granted' = granted + 1]_vars

\* a call whose operation failed twice with a rate-limit error and then
\* returned, after a token wait that timed out in between: three invocations,
\* three tokens, the bucket not above what the refills allow
C32_Witness ==
  \E c \in Executors :
    /\ result[c] = "returned"
    /\ op_calls[c] = 3 /\ call_tokens[c] = 3
    /\ wait_timeouts[c] = 1
    /\ last_err[c].kind = "rate_limit"

(***************************************************************************)
(* The gateway calls of a turn.                                            *)
(***************************************************************************)
\* the assistant messages of the turn's list that carry a tool-call request
ToolRounds == {k \in 1..Len(messages) : messages[k].role = "assistant" /\ messages[k].calls # <<>>}

\* C33: a turn enters execute_with_retry for the probe once and for the
\* streaming call at most once, in that order.  The streaming call is entered
\* only when nothing has been raised and, if the probe asked for tools, every
\* tool call has its tool message in the list; a turn that ended without it had
\* its probe fail or one of its tool calls raise.  The probe's answer is read
\* once, so there is one tool round at most, and once an error event has been
\* emitted no gateway call is entered or in progress.
C33_ProbeThenAtMostOneStream ==
  /\ [](/\ calls_made \in {<<>>, <<"probe">>, <<"probe", "stream">>}
        /\ gen_pc \notin {"none", "start", "probe"} => Len(calls_made) >= 1
        /\ Cardinality(ToolRounds) <= 1
        /\ Cardinality(EventsOfType("tool_call")) <= 1
        /\ EventsOfType("error") # {} => \A c \in Executors : op[c] = "none")
  /\ [](TurnOver /\ Len(calls_made) = 1 =>
          /\ exceptions \in {<<"gateway">>, <<"json">>}
          /\ exceptions = <<"gateway">> => tool_calls = <<>>
          /\ exceptions = <<"json">> =>
               /\ tool_calls # <<>>
               /\ Len(Appended) <= Len(tool_calls))
  /\ [](TurnOver /\ Len(calls_made) = 2 =>
          /\ exceptions \in {<<>>, <<"gateway">>, <<"stream">>}
          /\ tool_calls # <<>> => Len(Appended) = Len(tool_calls) + 1)
  /\ [][calls_made' # calls_made =>
          /\ EventsOfType("error") = {} /\ exceptions = <<>>
          /\ IF calls_made = <<>>
               THEN /\ calls_made' = <<"probe">>
                    /\ tool_calls = <<>> /\ messages = TurnBase
               ELSE /\ calls_made' = <<"probe", "stream">>
                    /\ IF tool_calls = <<>>
                         THEN messages = TurnBase
                         ELSE /\ Len(Appended) = Len(tool_calls) + 1
                              /\ \A i \in 1..Len(tool_calls) :
                                   Appended[i + 1] = ToolMessage(tool_calls[i])]_vars
  /\ [][tool_calls' # tool_calls => tool_calls = <<>> /\ calls_made = <<"probe">>]_vars

\* a turn on the tool path that went all the way: two tool calls answered, the
\* streaming call made after them, chunks streamed, the turn over without error
C33_Witness ==
  /\ TurnOver
  /\ calls_made = <<"probe", "stream">>
  /\ Len(tool_calls) = 2
  /\ exceptions = <<>>
  /\ EventsOfType("chunk") # {}
  /\ Cardinality(ToolRounds) = 1

(***************************************************************************)
(* The shape of a turn's event sequence.                                   *)
(***************************************************************************)
\* the place of an event type in the order start, tool_call, chunk, error, end
Rank(type) ==
  CASE type = "start" -> 1
    [] type = "tool_call" -> 2
    [] type = "chunk" -> 3
    [] type = "error" -> 4
    [] type = "end" -> 5

\* C34: the events of a turn are, in this order, start, at most one tool_call,
\* any number of chunks, at most one error, and end once the turn is over; the
\* tool_call event is emitted when the probe returns with finish_reason
\* tool_calls and only then, before any chunk, and neither a chunk nor a
\* tool_call follows an error.
C34_EventShape ==
  /\ [](/\ \A i \in 1..(Len(events) - 1) :
             /\ Rank(events[i].type) <= Rank(events[i + 1].type)
             /\ Rank(events[i].type) = Rank(events[i + 1].type) => events[i].type = "chunk"
        /\ Len(events) > 0 => events[1].type = "start"
        /\ TurnOver => Len(events) >= 2 /\ events[Len(events)].type = "end"
        /\ EventsOfType("tool_call") # {} <=> tool_calls # <<>>
        /\ \A i \in EventsOfType("error"), j \in 1..Len(events) :
             j > i => events[j].type = "end")
  /\ [][gen_pc = "probe_wait" /\ gen_pc' \in {"tool_assistant", "stream"} =>
          IF tool_calls' # <<>>
            THEN /\ gen_pc' = "tool_assistant"
                 /\ events' = Append(events, Event("tool_call", <<>>))
                 /\ EventsOfType("chunk") = {}
            ELSE /\ gen_pc' = "stream"
                 /\ events' = events]_vars
  /\ [][Len(events') > Len(events) /\ events'[Len(events')].type = "tool_call" =>
          gen_pc = "probe_wait" /\ tool_calls = <<>> /\ tool_calls' # <<>>]_vars

\* a turn with every kind of event: the probe asked for a tool, two chunks of
\* the answer were streamed, then the stream failed
C34_Witness ==
  /\ TurnOver
  /\ Len(events) = 6
  /\ events[2].type = "tool_call"
  /\ events[3].type = "chunk" /\ events[4].type = "chunk"
  /\ events[5].type = "error"
  /\ events[6].type = "end"

(***************************************************************************)
(* Segmentation after an early terminator.                                 *)
(***************************************************************************)
\* C35 (as the specification words it): whenever the buffer, with the new chunk
\* appended, holds a sentence terminator beyond the minimum threshold, the chunk
\* step cuts a segment; a terminator within the threshold at the head of the
\* buffer does not keep later sentences from being cut.
C35_TerminatorBeyondThresholdSegments ==
  [][consumer = "feed" /\ events' # events /\ tts_enabled =>
       LET buffer == accumulated_text \o events'[Len(events')].content
       IN  (\E i \in TerminatorsAt(buffer) : i > MinSentenceEnd + 1) =>
             Len(synth') = Len(synth) + 1]_vars

(***************************************************************************)
(* The text handed to the synthesis over a whole turn.                     *)
(***************************************************************************)
\* event_generator has sent end for a turn that had no error
CompletedNormally ==
  /\ consumer = "router" /\ router_pc = "returned"
  /\ delivered # <<>> /\ LastSent.type = "end"
  /\ EventsOfType("error") = {}

\* C36: when a turn with synthesis enabled completes normally, the texts handed
\* to text_to_speech, the segments in the order they were cut and then the text
\* flushed at end, make up, put end to end, the chunk contents of the turn put
\* end to end; each call is added after the earlier ones, none is empty, and
\* with synthesis disabled none is made.
C36_SynthesisedTextIsStreamedText ==
  /\ [](CompletedNormally /\ tts_enabled =>
          /\ Concat(SynthTexts) = Concat(ChunkTexts(events))
          /\ \A i \in 1..Len(synth) : synth[i].text # <<>>
          /\ accumulated_text # <<>> => synth[Len(synth)].text = accumulated_text)
  /\ [](consumer = "router" /\ ~tts_enabled => synth = <<>>)
  /\ [][consumer = "router" /\ synth' # synth =>
          /\ Len(synth') = Len(synth) + 1
          /\ SubSeq(synth', 1, Len(synth)) = synth]_vars

\* a completed turn of three chunks: a sentence was cut at each of the first
\* two and the third chunk was flushed at end
C36_Witness ==
  /\ CompletedNormally /\ tts_enabled
  /\ Len(ChunkTexts(events)) = 3
  /\ Len(synth) = 3
  /\ synth[3].text = <<"a">>
  /\ Len(Concat(SynthTexts)) > 2 * MinSentenceEnd

(***************************************************************************)
(* What get_status() reports while an item is in playback.                 *)
(***************************************************************************)
\* stop() has not been called so far: no consumer was cancelled
NeverStopped == cancelling = {} /\ stop_pc = "idle" /\ \A t \in Tasks : ~Done(t)

\* C37 (as the specification words it): under any interleaving of the consumer
\* with clear_queue() and add_to_queue(), the playback state names item X as
\* playing exactly while the consumer is in the playback sleep of X, and
\* get_status() reports just that: idle if and only if the consumer is not in
\* the middle of an item.
C37_StatusIdleIffNotPlaying ==
  /\ [](NeverStopped =>
          /\ (current_audio # NoItem /\ is_playing) <=> InPlayback # {}
          /\ is_playing => \A t \in InPlayback : LastPlayedBy(t) = {current_audio})
  /\ [][GetStatus /\ NeverStopped =>
          /\ status'.playing <=> InPlayback # {}
          /\ status'.playing => \A t \in InPlayback : LastPlayedBy(t) = {status'.path}]_vars

(***************************************************************************)
(* Whether an accepted item gets played.                                   *)
(***************************************************************************)
\* item i is on the queue with its file on disk and no stop() is in progress
Pending(i) ==
  /\ i \in Queued /\ i \in file_exists
  /\ i \notin offered_at_stop
  /\ stop_pc = "idle"

\* item i has been made the current item
BecameCurrent(i) == \E k \in 1..Len(played) : played[k].item = i

\* C38 (as the specification words it): an item that add_to_queue() accepted
\* and whose file stays on disk eventually becomes the current item, unless
\* clear_queue() drains it or stop() is invoked after it was accepted, also
\* when the add_to_queue() ran while an earlier stop() was in progress.  It is
\* stated from the moment that earlier stop() has returned, and an item that
\* leaves the queue because reading its file size failed counts as handled.
C38_AcceptedItemEventuallyCurrent ==
  \A i \in 1..MaxItems :
    Pending(i) ~>
      \/ BecameCurrent(i)
      \/ i \notin Queued
      \/ i \notin file_exists
      \/ i \in offered_at_stop

(***************************************************************************)
(* The caller's history list across turns.                                 *)
(***************************************************************************)
\* the messages of a list that only a tool round trip puts there
RoundTripMessages(msgs) ==
  {k \in 1..Len(msgs) : msgs[k].role = "tool" \/ msgs[k].calls # <<>>}

\* C39: stream_chat leaves the history list it was given as it was: whatever a
\* turn appends goes into the message list built for that turn and nowhere
\* else, so a turn started later with the same history list begins with the
\* system message, the history as the caller first passed it and the user
\* message, and with nothing an earlier turn appended.
C39_HistoryLeftUnchanged ==
  /\ [][gen_pc # "none" => history' = history]_vars
  /\ [](history \in Histories /\ RoundTripMessages(history) = {})
  /\ [][messages' # messages /\ gen_pc \notin {"none", "finished"} =>
          /\ messages' = Append(messages, messages'[Len(messages')])
          /\ Len(messages') \in RoundTripMessages(messages')
          /\ history' = history]_vars
  /\ [][earlier_appended' # earlier_appended =>
          /\ messages' = <<SystemMessage>> \o history' \o <<UserMessage>>
          /\ RoundTripMessages(messages') = {}
          /\ earlier_appended'[Len(earlier_appended')] =>
               /\ RoundTripMessages(messages) # {}
               /\ messages' = SubSeq(messages, 1, Len(messages'))
               /\ Len(messages') < Len(messages)]_vars
  /\ [](gen_pc \in {"start", "probe", "probe_wait"} => messages = TurnBase)

\* a second turn with the same two-message history, after a first that had
\* appended to its list: the second has answered two tool calls of its own and
\* is about to stream, its list being the base plus its own three messages
C39_Witness ==
  /\ earlier_appended = <<TRUE>>
  /\ gen_pc = "stream"
  /\ Len(history) = 2
  /\ Len(messages) = Len(TurnBase) + 3
  /\ SubSeq(messages, 1, Len(TurnBase)) = TurnBase
  /\ Cardinality(RoundTripMessages(messages)) = 3

====
